---- MODULE Spec2Model ----
(***************************************************************************)
(* Shamir's Secret Sharing over the binary fields GF(2^n) of horcrux.      *)
(*                                                                         *)
(* A machine word W is the set of the positions of its set bits, a subset  *)
(* of 0..W::NBITS-1, so every word keeps its width: a left shift drops the *)
(* bits that leave the word.  A field element is its array of words,       *)
(* indexed from 0 as in the source.  A byte (u8) is an integer 0..255.     *)
(***************************************************************************)
EXTENDS Integers, Sequences, FiniteSets, TLC

(***************************************************************************)
(* Bounds of the model.                                                    *)
(***************************************************************************)
\* Largest number n of shares a split is asked for.
MaxN == 3

(***************************************************************************)
(* Loops.  Iterate(Step, st, lo, hi) is the state after                    *)
(*     for t in lo..hi { st = Step(st, t) }     (hi exclusive)             *)
(* run from st.  The range is halved and the first half is evaluated, to   *)
(* an explicit value, before the second, which keeps the evaluation stack  *)
(* shallow; the steps and their order are those of the loop.               *)
(***************************************************************************)
RECURSIVE Iterate(_, _, _, _)
Iterate(Step(_, _), st, lo, hi) ==
  IF hi <= lo THEN st
  ELSE IF hi = lo + 1 THEN Step(st, lo)
  ELSE LET mid == (lo + hi) \div 2
       IN CHOOSE r \in {Iterate(Step, m, mid, hi) : m \in {s \in {Iterate(Step, st, lo, mid)} : s = s}} : TRUE

(***************************************************************************)
(* The field types: GF2n<W, NWORDS, A, B, C>.                              *)
(***************************************************************************)
GF8 == [name |-> "GF8", wbits |-> 8, nwords |-> 1, a |-> 4, b |-> 3, c |-> 1]
GF16 == [name |-> "GF16", wbits |-> 16, nwords |-> 1, a |-> 5, b |-> 3, c |-> 1]
GF64u32 == [name |-> "GF64u32", wbits |-> 32, nwords |-> 2, a |-> 4, b |-> 3, c |-> 1]

GF64 == [name |-> "GF64", wbits |-> 64, nwords |-> 1, a |-> 4, b |-> 3, c |-> 1]
GF128 == [name |-> "GF128", wbits |-> 64, nwords |-> 2, a |-> 7, b |-> 2, c |-> 1]
GF32 == [name |-> "GF32", wbits |-> 32, nwords |-> 1, a |-> 7, b |-> 3, c |-> 2]
GF128u128 == [name |-> "GF128u128", wbits |-> 128, nwords |-> 1, a |-> 7, b |-> 2, c |-> 1]

\* Self::NBITS = W::NBITS * NWORDS
NBITS(f) == f.wbits * f.nwords

(***************************************************************************)
(* Word operations.                                                        *)
(***************************************************************************)
W_ZERO == {}
W_ONE == {0}
\* a ^ b
BitXor(a, b) == (a \ b) \cup (b \ a)
\* a << s, for 0 <= s < W::NBITS
Shl(f, a, s) == {i + s : i \in {j \in a : j + s < f.wbits}}
\* a >> s, for 0 <= s < W::NBITS
Shr(a, s) == {i - s : i \in {j \in a : j >= s}}
\* W::from(byte)
W_from(byte) == {i \in 0..7 : (byte \div (2 ^ i)) % 2 = 1}

(***************************************************************************)
(* Field elements.                                                         *)
(***************************************************************************)
Words(f) == 0..(f.nwords - 1)
new_small(f, word) == [i \in Words(f) |-> IF i = 0 THEN word ELSE W_ZERO]
ZERO(f) == new_small(f, W_ZERO)
ONE(f) == new_small(f, W_ONE)
\* From<u8>
from(f, byte) == [i \in Words(f) |-> IF i = 0 THEN W_from(byte) ELSE W_ZERO]
\* Add with | in place of ^.
add_or(f, x, y) == [i \in Words(f) |-> x[i] \cup y[i]]

\* Add, AddAssign
add(f, x, y) == [i \in Words(f) |-> BitXor(x[i], y[i])]
\* Sub
sub(f, x, y) == add(f, x, y)
\* from_diff subtracting the bytes: Self::from(lhs.wrapping_sub(rhs)).
from_diff_wrapping_sub(f, lhs, rhs) == from(f, (lhs - rhs + 256) % 256)

\* from_diff: Self::from(lhs ^ rhs)
from_diff(f, lhs, rhs) == [i \in Words(f) |-> IF i = 0 THEN BitXor(W_from(lhs), W_from(rhs)) ELSE W_ZERO]

\* The word XORed into words[0] when shl1 carries out of the top word.
shl1_tail(f) == BitXor(BitXor(W_ONE, Shl(f, W_ONE, f.a)), BitXor(Shl(f, W_ONE, f.b), Shl(f, W_ONE, f.c)))

\* shl1 dropping the bit shifted out of the top word: no reduction by r(x).
shl1_unreduced(f, v) ==
  Iterate(LAMBDA st, i :
            [words |-> [st.words EXCEPT ![i] = BitXor(Shl(f, v[i], 1), st.carry)],
             carry |-> Shr(v[i], f.wbits - 1)],
          [words |-> v, carry |-> W_ZERO], 0, f.nwords).words

shl1(f, v) ==
  LET shifted == Iterate(LAMBDA st, i :
                           [words |-> [st.words EXCEPT ![i] = BitXor(Shl(f, v[i], 1), st.carry)],
                            carry |-> Shr(v[i], f.wbits - 1)],
                         [words |-> v, carry |-> W_ZERO], 0, f.nwords)
  IN IF shifted.carry # W_ZERO
       THEN [shifted.words EXCEPT ![0] = BitXor(@, shl1_tail(f))]
       ELSE shifted.words

\* mul_as_add with the inner loop one bit short (for i in 0..W::NBITS - 1).
mul_as_add_skip_top_bit(f, self, other) ==
  Iterate(LAMBDA outer, w :
            Iterate(LAMBDA st, i :
                      [result |-> IF i \in other[w] THEN add(f, st.result, st.self) ELSE st.result,
                       self |-> shl1(f, st.self)],
                    outer, 0, f.wbits - 1),
          [result |-> ZERO(f), self |-> self], 0, f.nwords).result

\* mul_as_add with result starting from self in place of zero.
mul_as_add_from_self(f, self, other) ==
  Iterate(LAMBDA outer, w :
            Iterate(LAMBDA st, i :
                      [result |-> IF i \in other[w] THEN add(f, st.result, st.self) ELSE st.result,
                       self |-> shl1(f, st.self)],
                    outer, 0, f.wbits),
          [result |-> self, self |-> self], 0, f.nwords).result

\* mul_as_add shifting before it adds.
mul_as_add_shift_first(f, self, other) ==
  Iterate(LAMBDA outer, w :
            Iterate(LAMBDA st, i :
                      LET shifted == shl1(f, st.self)
                      IN [result |-> IF i \in other[w] THEN add(f, st.result, shifted) ELSE st.result,
                          self |-> shifted],
                    outer, 0, f.wbits),
          [result |-> ZERO(f), self |-> self], 0, f.nwords).result

mul_as_add(f, self, other) ==
  Iterate(LAMBDA outer, w :
            Iterate(LAMBDA st, i :
                      [result |-> IF i \in other[w] THEN add(f, st.result, st.self) ELSE st.result,
                       self |-> shl1(f, st.self)],
                    outer, 0, f.wbits),
          [result |-> ZERO(f), self |-> self], 0, f.nwords).result

\* c ^ (c << A) ^ (c << B) ^ (c << C): the part of c * (x^A + x^B + x^C + 1)
\* that stays in the word.
carry_low(f, c) ==
  BitXor(BitXor(c, Shl(f, c, f.a)), BitXor(Shl(f, c, f.b), Shl(f, c, f.c)))

\* A next carry that keeps the bits of c in place beside the shifted ones.
carry_high_keeping(f, c) ==
  BitXor(c, BitXor(Shr(c, f.wbits - f.a), BitXor(Shr(c, f.wbits - f.b), Shr(c, f.wbits - f.c))))

\* (c >> (W::NBITS - A)) ^ (c >> (W::NBITS - B)) ^ (c >> (W::NBITS - C)): the
\* part that leaves the word.
carry_high(f, c) ==
  BitXor(Shr(c, f.wbits - f.a), BitXor(Shr(c, f.wbits - f.b), Shr(c, f.wbits - f.c)))

\* The loop "while c != W::ZERO" of propagate_carries, NWORDS = 1.
RECURSIVE propagate_while(_, _, _)
propagate_while(f, word, c) ==
  IF c = W_ZERO THEN word
  ELSE propagate_while(f, BitXor(word, carry_low(f, c)), carry_high(f, c))

\* propagate_carries folding only the low part of each carry word.
propagate_carries_low_only(f, words, carry) ==
  [i \in Words(f) |-> BitXor(words[i], carry_low(f, carry[i]))]

propagate_carries(f, words, carry) ==
  IF f.nwords = 1
    THEN [i \in Words(f) |-> propagate_while(f, words[0], carry[0])]
    ELSE Iterate(LAMBDA ws, i :
                   LET c == carry[i]
                       w1 == [ws EXCEPT ![i] = BitXor(@, carry_low(f, c))]
                   IN IF i + 1 < f.nwords
                        THEN [w1 EXCEPT ![i + 1] = BitXor(@, carry_high(f, c))]
                        ELSE LET c2 == carry_high(f, c)
                                 w2 == [w1 EXCEPT ![0] = BitXor(@, carry_low(f, c2))]
                             IN [w2 EXCEPT ![1] = BitXor(@, carry_high(f, c2))],
                 words, 0, f.nwords)

\* shl_word reducing the carry of a single word in one pass.
shl_word_one_pass(f, v, shift) ==
  IF f.nwords = 1
    THEN [i \in Words(f) |->
            BitXor(Shl(f, v[0], shift), carry_low(f, Shr(v[0], f.wbits - shift)))]
    ELSE LET shifted == Iterate(LAMBDA st, i :
                                  [words |-> [st.words EXCEPT
                                                ![i] = BitXor(Shl(f, v[i], shift), st.carry)],
                                   carry |-> Shr(v[i], f.wbits - shift)],
                                [words |-> v, carry |-> W_ZERO], 0, f.nwords)
             w0 == [shifted.words EXCEPT ![0] = BitXor(@, carry_low(f, shifted.carry))]
         IN [w0 EXCEPT ![1] = BitXor(@, carry_high(f, shifted.carry))]

\* shl_word(shift), 0 < shift < W::NBITS: v * x^shift.
shl_word(f, v, shift) ==
  IF f.nwords = 1
    THEN [i \in Words(f) |->
            propagate_while(f, Shl(f, v[0], shift), Shr(v[0], f.wbits - shift))]
    ELSE LET shifted == Iterate(LAMBDA st, i :
                                  [words |-> [st.words EXCEPT
                                                ![i] = BitXor(Shl(f, v[i], shift), st.carry)],
                                   carry |-> Shr(v[i], f.wbits - shift)],
                                [words |-> v, carry |-> W_ZERO], 0, f.nwords)
             w0 == [shifted.words EXCEPT ![0] = BitXor(@, carry_low(f, shifted.carry))]
         IN [w0 EXCEPT ![1] = BitXor(@, carry_high(f, shifted.carry))]

\* shlt moving the words up without folding the top word back.
shlt_unreduced(f, v) ==
  [i \in Words(f) |-> IF i = 0 THEN W_ZERO ELSE v[i - 1]]

\* shlt: v * x^(W::NBITS), a shift by one whole word.
shlt(f, v) ==
  IF f.nwords = 1
    THEN [i \in Words(f) |-> propagate_while(f, W_ZERO, v[0])]
    ELSE LET carry == v[f.nwords - 1]
             moved == [i \in Words(f) |-> IF i = 0 THEN carry_low(f, carry) ELSE v[i - 1]]
         IN [moved EXCEPT ![1] = BitXor(@, carry_high(f, carry))]

\* Shl::shl taking the whole words of the shift as one-bit steps of shl_word.
RECURSIVE shl_by_bits(_, _, _)
shl_by_bits(f, v, shift) ==
  IF shift >= f.wbits
    THEN shl_by_bits(f, shl_word(f, v, f.wbits - 1), shift - f.wbits)
    ELSE IF shift # 0 THEN shl_word(f, v, shift) ELSE v

\* Shl::shl: shlt while shift >= W::NBITS, then shl_word of what is left.
RECURSIVE shl(_, _, _)
shl(f, v, shift) ==
  IF shift >= f.wbits
    THEN shl(f, shlt(f, v), shift - f.wbits)
    ELSE IF shift # 0 THEN shl_word(f, v, shift) ELSE v

\* words[idx] ^= d when idx < NWORDS, carry[idx - NWORDS] ^= d otherwise.
accumulate(f, st, idx, d) ==
  IF idx < f.nwords
    THEN [st EXCEPT !.words[idx] = BitXor(@, d)]
    ELSE [st EXCEPT !.carry[idx - f.nwords] = BitXor(@, d)]

mul_fused_carry(f, self, other) ==
  LET product ==
        Iterate(LAMBDA sti, i :
                  Iterate(LAMBDA stj, j :
                            IF j \in other[i]
                              THEN Iterate(LAMBDA st, kk :
                                             LET low == accumulate(f, st, kk + i, Shl(f, self[kk], j))
                                             IN IF j # 0
                                                  THEN accumulate(f, low, kk + i + 1,
                                                                  Shr(self[kk], f.wbits - j))
                                                  ELSE low,
                                           stj, 0, f.nwords)
                              ELSE stj,
                          sti, 0, f.wbits),
                [words |-> ZERO(f), carry |-> ZERO(f)], 0, f.nwords)
  IN propagate_carries(f, product.words, product.carry)

\* _mm_clmulepi64_si128(xi, yj, 0): the 128-bit carry-less product of two
\* 64-bit words; cc[0] is its low half and cc[1] its high half.
clmulepi64(a, b) ==
  LET bits == {d \in 0..126 : Cardinality({i \in a : (d - i) \in b}) % 2 = 1}
  IN [lo |-> {d \in bits : d < 64}, hi |-> {d - 64 : d \in {e \in bits : e >= 64}}]

mul_clmul_u64(f, x, y) ==
  LET product ==
        Iterate(LAMBDA sti, i :
                  Iterate(LAMBDA st, j :
                            LET cc == clmulepi64(x[i], y[j])
                            IN accumulate(f, accumulate(f, st, i + j, cc.lo), i + j + 1, cc.hi),
                          sti, 0, f.nwords),
                [words |-> ZERO(f), carry |-> ZERO(f)], 0, f.nwords)
  IN propagate_carries(f, product.words, product.carry)

\* Mul: mul_as_add, the branch every word type other than u64 takes (the
\* clmul branch needs W::NBITS = 64 and the clmul feature).
mul(f, self, other) == mul_as_add(f, self, other)

\* invert multiplying before it squares: self^(2^(n-1) - 1).
invert_multiply_first(f, self) ==
  Iterate(LAMBDA st, t :
            [self |-> mul(f, st.self, st.self), result |-> mul(f, st.result, st.self)],
          [self |-> self, result |-> ONE(f)], 1, NBITS(f)).result

\* invert with the loop one turn short (for _ in 2..NBITS): self^(2^(n-1) - 2).
invert_short(f, self) ==
  Iterate(LAMBDA st, t :
            LET sq == mul(f, st.self, st.self)
            IN [self |-> sq, result |-> mul(f, st.result, sq)],
          [self |-> self, result |-> ONE(f)], 2, NBITS(f)).result

\* invert with the loop one turn long (for _ in 0..NBITS): self^(2^(n+1) - 2).
invert_extra_pass(f, self) ==
  Iterate(LAMBDA st, t :
            LET sq == mul(f, st.self, st.self)
            IN [self |-> sq, result |-> mul(f, st.result, sq)],
          [self |-> self, result |-> ONE(f)], 0, NBITS(f)).result

invert(f, self) ==
  Iterate(LAMBDA st, t :
            LET sq == mul(f, st.self, st.self)
            IN [self |-> sq, result |-> mul(f, st.result, sq)],
          [self |-> self, result |-> ONE(f)], 1, NBITS(f)).result

(***************************************************************************)
(* Test values of the source's tests: get_nonzero_test_values and          *)
(* get_test_values, and the monomial xn(n).                                *)
(***************************************************************************)
all_ones(f) == [i \in Words(f) |-> 0..(f.wbits - 1)]
xn(f, n) == [i \in Words(f) |-> IF i = n \div f.wbits THEN {n % f.wbits} ELSE W_ZERO]
get_nonzero_test_values(f) ==
  {all_ones(f)} \cup {xn(f, n) : n \in 0..(NBITS(f) - 1)}
                \cup {add(f, all_ones(f), xn(f, n)) : n \in 0..(NBITS(f) - 1)}
get_test_values(f) == get_nonzero_test_values(f) \cup {ZERO(f)}

(***************************************************************************)
(* Shamir's Secret Sharing.  Option<T> is a record: None, or Some(value).  *)
(***************************************************************************)
None == [some |-> FALSE]
Some(v) == [some |-> TRUE, value |-> v]
Share(x, y) == [x |-> x, y |-> y]
Min(p, q) == IF p <= q THEN p ELSE q

\* Self::NBYTES = W::NBYTES * NWORDS
NBYTES(f) == (f.wbits \div 8) * f.nwords

\* The outcome of a call that panics.
Panicked == [panic |-> TRUE]

\* The outcome of a call that returns value.
Returned(value) == [panic |-> FALSE, value |-> value]

\* W::from_bytes: W::from_be_bytes(bytes.try_into().unwrap()); the first byte
\* holds the highest bits of the word.
W_from_bytes(f, bytes) ==
  IF Len(bytes) # f.wbits \div 8
    THEN Panicked
    ELSE Returned(UNION {{8 * (Len(bytes) - j) + i : i \in W_from(bytes[j])} : j \in 1..Len(bytes)})

\* from_bytes accepting every input that is long enough.
from_bytes_at_least(f, bytes) ==
  IF Len(bytes) < NBYTES(f)
    THEN None
    ELSE Some([i \in Words(f) |->
                 W_from_bytes(f, SubSeq(bytes, i * (f.wbits \div 8) + 1,
                                        (i + 1) * (f.wbits \div 8))).value])

from_bytes(f, bytes) ==
  IF Len(bytes) # NBYTES(f)
    THEN None
    ELSE LET words == [i \in Words(f) |->
                         W_from_bytes(f, SubSeq(bytes, i * (f.wbits \div 8) + 1,
                                                (i + 1) * (f.wbits \div 8)))]
         IN IF \E i \in Words(f) : words[i].panic
              THEN Panicked
              ELSE Some([i \in Words(f) |-> words[i].value])

(***************************************************************************)
(* The text form of shares.  A text is a sequence of characters, each a    *)
(* string of length one.                                                   *)
(***************************************************************************)
DecDigits == <<"0", "1", "2", "3", "4", "5", "6", "7", "8", "9">>
LowerHex == DecDigits \o <<"a", "b", "c", "d", "e", "f">>
UpperHex == DecDigits \o <<"A", "B", "C", "D", "E", "F">>

\* The class [0-9] and the class [0-9a-fA-F] of the regular expressions.
is_digit(ch) == \E v \in 1..10 : DecDigits[v] = ch
is_hex(ch) == \E v \in 1..16 : LowerHex[v] = ch \/ UpperHex[v] = ch

digit_value(ch) == (CHOOSE v \in 1..10 : DecDigits[v] = ch) - 1
hex_value(ch) == (CHOOSE v \in 1..16 : LowerHex[v] = ch \/ UpperHex[v] = ch) - 1

\* "{}" of a u8: its decimal digits, without leading zeros.
u8_fmt(x) ==
  IF x < 10 THEN <<DecDigits[x + 1]>>
  ELSE IF x < 100 THEN <<DecDigits[(x \div 10) + 1], DecDigits[(x % 10) + 1]>>
  ELSE <<DecDigits[(x \div 100) + 1], DecDigits[((x \div 10) % 10) + 1], DecDigits[(x % 10) + 1]>>

\* The value of the q-th group of four bits of a word.
nibble(word, q) ==
  (IF 4 * q \in word THEN 1 ELSE 0) + (IF 4 * q + 1 \in word THEN 2 ELSE 0)
    + (IF 4 * q + 2 \in word THEN 4 ELSE 0) + (IF 4 * q + 3 \in word THEN 8 ELSE 0)

\* "{d:02x?}", "{d:04x?}", "{d:08x?}", ...: the word in lowercase hexadecimal,
\* padded with zeros to W::NBITS / 4 characters, highest digit first.
W_fmt(f, word) ==
  [j \in 1..(f.wbits \div 4) |-> LowerHex[nibble(word, (f.wbits \div 4) - j) + 1]]

\* Display writing the highest word first.
GF2n_fmt_high_word_first(f, e) ==
  [q \in 1..(f.nwords * (f.wbits \div 4)) |->
     W_fmt(f, e[f.nwords - 1 - ((q - 1) \div (f.wbits \div 4))])[((q - 1) % (f.wbits \div 4)) + 1]]

\* Display for GF2n: the words in the order words[0], words[1], ...
GF2n_fmt(f, e) ==
  [q \in 1..(f.nwords * (f.wbits \div 4)) |->
     W_fmt(f, e[(q - 1) \div (f.wbits \div 4)])[((q - 1) % (f.wbits \div 4)) + 1]]

\* Display for Share: "{}|{}" of x and y.
Share_fmt(S, f, share) ==
  (IF S = "compact" THEN u8_fmt(share.x) ELSE GF2n_fmt(f, share.x))
    \o <<"|">> \o GF2n_fmt(f, share.y)

\* The value of a text of decimal digits, 256 standing for every value that
\* does not fit a u8.
RECURSIVE u8_value(_)
u8_value(s) ==
  IF s = <<>> THEN 0
  ELSE LET front == u8_value(SubSeq(s, 1, Len(s) - 1))
           v == front * 10 + digit_value(s[Len(s)])
       IN IF front > 255 \/ v > 255 THEN 256 ELSE v

\* str::parse::<u8>: an optional "+", then at least one decimal digit, and a
\* value that fits; an error otherwise.
parse_u8(s) ==
  LET digits == IF s # <<>> /\ s[1] = "+" THEN Tail(s) ELSE s
  IN IF digits = <<>> \/ \E i \in 1..Len(digits) : ~is_digit(digits[i])
       THEN None
       ELSE IF u8_value(digits) > 255 THEN None ELSE Some(u8_value(digits))

\* hex::decode: an error on an odd length or on a character that is no
\* hexadecimal digit, of either case; otherwise one byte per two characters.
hex_decode(s) ==
  IF Len(s) % 2 # 0 \/ \E i \in 1..Len(s) : ~is_hex(s[i])
    THEN None
    ELSE Some([j \in 1..(Len(s) \div 2) |->
                 16 * hex_value(s[2 * j - 1]) + hex_value(s[2 * j])])

\* regex.captures(s) for ^([0-9]+)\|([0-9a-fA-F]+)$ (compact) and
\* ^([0-9a-fA-F]+)\|([0-9a-fA-F]+)$ (random): the whole text is a non-empty
\* run of the first class, a "|", and a non-empty run of hexadecimal digits.
captures(S, s) ==
  LET bars == {q \in 1..Len(s) : s[q] = "|"}
      matches(q) ==
        /\ 1 < q
        /\ q < Len(s)
        /\ \A i \in 1..(q - 1) : IF S = "compact" THEN is_digit(s[i]) ELSE is_hex(s[i])
        /\ \A i \in (q + 1)..Len(s) : is_hex(s[i])
  IN IF \E q \in bars : matches(q)
       THEN LET q == CHOOSE q \in bars : matches(q)
            IN Some(<<SubSeq(s, 1, q - 1), SubSeq(s, q + 1, Len(s))>>)
       ELSE None

\* F::from_bytes(&hex::decode(text).ok()?)
from_hex(f, text) ==
  LET bytes == hex_decode(text)
  IN IF bytes.some THEN from_bytes(f, bytes.value) ELSE None

\* CompactShamir::parse_x and RandomShamir::parse_x
parse_x(S, f, s) == IF S = "compact" THEN parse_u8(s) ELSE from_hex(f, s)

\* CompactShamir::parse_share and RandomShamir::parse_share
parse_share(S, f, s) ==
  LET cap == captures(S, s)
      x == parse_x(S, f, cap.value[1])
      y == from_hex(f, cap.value[2])
  IN IF ~cap.some THEN None
     ELSE IF x = Panicked THEN Panicked
     ELSE IF ~x.some THEN None
     ELSE IF y = Panicked THEN Panicked
     ELSE IF ~y.some THEN None
     ELSE Some(Share(x.value, y.value))

check_split_parameters(k, n) == k # 0 /\ n # 0 /\ k <= n /\ n < 256

check_reconstruct_parameters(shares, k) ==
  /\ k # 0
  /\ k < 256
  /\ Len(shares) >= k
  /\ \A i, j \in 1..Len(shares) : i # j => shares[i].x # shares[j].x

\* The i-th fresh non-zero value F::uniform(rng) returns in the model when
\* split draws an x: 0x47, all-ones, then the top bits.
fresh(f, i) ==
  IF i = 1 THEN from(f, 71)
  ELSE IF i = 2 THEN all_ones(f)
  ELSE xn(f, NBITS(f) + 2 - i)

\* The values F::uniform(rng) returns in the model when split draws an x
\* after m shares were pushed: ZERO, the m values already drawn, or the next
\* fresh one.  The real generator returns any of the 2^n elements.
uniform(f, m) == {ZERO(f)} \cup {fresh(f, i) : i \in 1..(m + 1)}

\* The values F::uniform(rng) returns in the model when generate_polynom
\* draws a coefficient: the E1 coefficient 0x47 and all-ones.
uniform_coefficient(f) == {from(f, 71), all_ones(f)}

\* The polynomials generate_polynom(secret, k) may return: k - 1 draws.
generate_polynom(f, k) == [1..(k - 1) -> uniform_coefficient(f)]

\* The running-power loop started one power ahead: a_j meets x^(j+1).
eval_polynom_power_ahead(f, secret, polynom, x) ==
  Iterate(LAMBDA st, j :
            [y |-> add(f, st.y, mul(f, st.xn, polynom[j])),
             xn |-> mul(f, st.xn, x)],
          [y |-> secret, xn |-> mul(f, x, x)], 1, Len(polynom) + 1).y

\* y = P(x): the running-power loop of split.
eval_polynom(f, secret, polynom, x) ==
  Iterate(LAMBDA st, j :
            [y |-> add(f, st.y, mul(f, st.xn, polynom[j])),
             xn |-> mul(f, st.xn, x)],
          [y |-> secret, xn |-> x], 1, Len(polynom) + 1).y

\* split numbering the shares from 0 (for i in 0..n).
CompactShamir_split_from_zero(f, secret, polynom, n) ==
  [i \in 1..(n % 256) |-> Share(i - 1, eval_polynom(f, secret, polynom, from(f, i - 1)))]

\* split with the loop one share short (for i in 1..n).
CompactShamir_split_short(f, secret, polynom, n) ==
  [i \in 1..((n % 256) - 1) |-> Share(i, eval_polynom(f, secret, polynom, from(f, i)))]

CompactShamir_split(f, secret, polynom, n) ==
  [i \in 1..(n % 256) |-> Share(i, eval_polynom(f, secret, polynom, from(f, i)))]

\* reconstruct taking the j-th share's x to be its position j in the slice.
CompactShamir_reconstruct_by_position(f, shares, k) ==
  LET m == Min(k, Len(shares))
      term(i) ==
        LET st == Iterate(LAMBDA s, j :
                            IF j # i
                              THEN [lagrange |-> mul(f, s.lagrange, from(f, j)),
                                    denom |-> mul(f, s.denom, from_diff(f, j, i))]
                              ELSE s,
                          [lagrange |-> ONE(f), denom |-> ONE(f)], 1, m + 1)
        IN mul(f, mul(f, st.lagrange, shares[i].y), invert(f, st.denom))
  IN Some(Iterate(LAMBDA secret, i : add(f, secret, term(i)), ZERO(f), 1, m + 1))

\* reconstruct interpolating over all the shares it is given.
CompactShamir_reconstruct_all_shares(f, shares, k) ==
  LET m == Len(shares)
      gfx == [j \in 1..Len(shares) |-> from(f, shares[j].x)]
      term(i) ==
        LET st == Iterate(LAMBDA s, j :
                            IF j # i
                              THEN [lagrange |-> mul(f, s.lagrange, gfx[j]),
                                    denom |-> mul(f, s.denom, from_diff(f, shares[j].x, shares[i].x))]
                              ELSE s,
                          [lagrange |-> ONE(f), denom |-> ONE(f)], 1, m + 1)
        IN mul(f, mul(f, st.lagrange, shares[i].y), invert(f, st.denom))
  IN Some(Iterate(LAMBDA secret, i : add(f, secret, term(i)), ZERO(f), 1, m + 1))

CompactShamir_reconstruct(f, shares, k) ==
  LET m == Min(k, Len(shares))
      gfx == [j \in 1..Len(shares) |-> from(f, shares[j].x)]
      term(i) ==
        LET st == Iterate(LAMBDA s, j :
                            IF j # i
                              THEN [lagrange |-> mul(f, s.lagrange, gfx[j]),
                                    denom |-> mul(f, s.denom, from_diff(f, shares[j].x, shares[i].x))]
                              ELSE s,
                          [lagrange |-> ONE(f), denom |-> ONE(f)], 1, m + 1)
        IN mul(f, mul(f, st.lagrange, shares[i].y), invert(f, st.denom))
  IN Some(Iterate(LAMBDA secret, i : add(f, secret, term(i)), ZERO(f), 1, m + 1))

\* reconstruct_at with the numerator taken from the i-th share's x.
CompactShamir_reconstruct_at_own_x(f, shares, k, x) ==
  LET m == Min(k, Len(shares))
      term(i) ==
        LET st == Iterate(LAMBDA s, j :
                            IF j # i
                              THEN [lagrange |-> mul(f, s.lagrange, from_diff(f, shares[i].x, x)),
                                    denom |-> mul(f, s.denom, from_diff(f, shares[j].x, shares[i].x))]
                              ELSE s,
                          [lagrange |-> ONE(f), denom |-> ONE(f)], 1, m + 1)
        IN mul(f, mul(f, st.lagrange, shares[i].y), invert(f, st.denom))
  IN Some(Share(x, Iterate(LAMBDA y, i : add(f, y, term(i)), ZERO(f), 1, m + 1)))

CompactShamir_reconstruct_at(f, shares, k, x) ==
  LET m == Min(k, Len(shares))
      term(i) ==
        LET st == Iterate(LAMBDA s, j :
                            IF j # i
                              THEN [lagrange |-> mul(f, s.lagrange, from_diff(f, shares[j].x, x)),
                                    denom |-> mul(f, s.denom, from_diff(f, shares[j].x, shares[i].x))]
                              ELSE s,
                          [lagrange |-> ONE(f), denom |-> ONE(f)], 1, m + 1)
        IN mul(f, mul(f, st.lagrange, shares[i].y), invert(f, st.denom))
  IN Some(Share(x, Iterate(LAMBDA y, i : add(f, y, term(i)), ZERO(f), 1, m + 1)))

\* reconstruct interpolating over one share fewer than the threshold asks.
RandomShamir_reconstruct_one_less(f, shares, k) ==
  LET m == Min(k, Len(shares)) - 1
      term(i) ==
        LET st == Iterate(LAMBDA s, j :
                            IF j # i
                              THEN [lagrange |-> mul(f, s.lagrange, shares[j].x),
                                    denom |-> mul(f, s.denom, sub(f, shares[j].x, shares[i].x))]
                              ELSE s,
                          [lagrange |-> ONE(f), denom |-> ONE(f)], 1, m + 1)
        IN mul(f, mul(f, st.lagrange, shares[i].y), invert(f, st.denom))
  IN Some(Iterate(LAMBDA secret, i : add(f, secret, term(i)), ZERO(f), 1, m + 1))

RandomShamir_reconstruct(f, shares, k) ==
  LET m == Min(k, Len(shares))
      term(i) ==
        LET st == Iterate(LAMBDA s, j :
                            IF j # i
                              THEN [lagrange |-> mul(f, s.lagrange, shares[j].x),
                                    denom |-> mul(f, s.denom, sub(f, shares[j].x, shares[i].x))]
                              ELSE s,
                          [lagrange |-> ONE(f), denom |-> ONE(f)], 1, m + 1)
        IN mul(f, mul(f, st.lagrange, shares[i].y), invert(f, st.denom))
  IN Some(Iterate(LAMBDA secret, i : add(f, secret, term(i)), ZERO(f), 1, m + 1))

\* reconstruct_at with reconstruct's numerator: x is ignored, P(0) is returned.
RandomShamir_reconstruct_at_zero(f, shares, k, x) ==
  LET m == Min(k, Len(shares))
      term(i) ==
        LET st == Iterate(LAMBDA s, j :
                            IF j # i
                              THEN [lagrange |-> mul(f, s.lagrange, shares[j].x),
                                    denom |-> mul(f, s.denom, sub(f, shares[j].x, shares[i].x))]
                              ELSE s,
                          [lagrange |-> ONE(f), denom |-> ONE(f)], 1, m + 1)
        IN mul(f, mul(f, st.lagrange, shares[i].y), invert(f, st.denom))
  IN Some(Share(x, Iterate(LAMBDA y, i : add(f, y, term(i)), ZERO(f), 1, m + 1)))

RandomShamir_reconstruct_at(f, shares, k, x) ==
  LET m == Min(k, Len(shares))
      term(i) ==
        LET st == Iterate(LAMBDA s, j :
                            IF j # i
                              THEN [lagrange |-> mul(f, s.lagrange, sub(f, shares[j].x, x)),
                                    denom |-> mul(f, s.denom, sub(f, shares[j].x, shares[i].x))]
                              ELSE s,
                          [lagrange |-> ONE(f), denom |-> ONE(f)], 1, m + 1)
        IN mul(f, mul(f, st.lagrange, shares[i].y), invert(f, st.denom))
  IN Some(Share(x, Iterate(LAMBDA y, i : add(f, y, term(i)), ZERO(f), 1, m + 1)))

(***************************************************************************)
(* A session of the library on one field type F and one scheme S: one call *)
(* of S::split, then one call of S::reconstruct or S::reconstruct_at on a  *)
(* slice of the shares it produced.                                        *)
(***************************************************************************)
VARIABLES
  field,    \* the field type F
  shamir,   \* the scheme S: "compact" (CompactShamir) or "random" (RandomShamir)
  pc,       \* "idle", "retry" (inside RandomShamir::split's loop), "split", "done"
  secret,   \* split's argument secret
  k,        \* split's argument k
  n,        \* split's argument n
  polynom,  \* the coefficients a_1..a_{k-1} generate_polynom returned
  shares,   \* the shares pushed so far / returned by split
  draw,     \* outcome of the last draw of x in RandomShamir::split
  call,     \* the reconstruct / reconstruct_at call made: its arguments
  ret,      \* what that call returned
  arith,    \* a call of a field operation: its arguments and result
  family    \* the shares of the runs of split that differ only in the polynomial

vars == <<field, shamir, pc, secret, k, n, polynom, shares, draw, call, ret, arith, family>>

\* The field type the sessions run on: GF8, the field of the spec's example.
ShamirFields == {GF8}

\* The secrets split is called with: the E1 secret 0xAB and all-ones.
Secrets(f) == {from(f, 171), all_ones(f)}

\* The selections of produced shares a caller may make: any of the m
\* shares, each at most once, in any order.
Slices(m) ==
  {s \in UNION {[1..len -> 1..m] : len \in 1..m} :
     \A i, j \in 1..Len(s) : i # j => s[i] # s[j]}

\* The calls of reconstruct on m produced shares: the whole vector split
\* returned with any threshold, or a selection of shares with the threshold
\* equal to their number.
Calls(m) ==
  {[sel |-> [i \in 1..m |-> i], k |-> kk] : kk \in 1..m}
    \cup {[sel |-> s, k |-> Len(s)] : s \in Slices(m)}

\* The calls of reconstruct_at on m produced shares: as for reconstruct, the
\* selections keeping the order split produced.
AtCalls(m) ==
  {c \in Calls(m) : \A i, j \in 1..Len(c.sel) : i < j => c.sel[i] < c.sel[j]}

\* The x a caller asks reconstruct_at for.
AtValues(S, f, m) == IF S = "compact" THEN 0..(m + 1) ELSE uniform(f, m)

NoCall == [op |-> "none"]

Init ==
  /\ field \in ShamirFields
  /\ shamir \in {"compact", "random"}
  /\ pc = "idle"
  /\ secret = ZERO(field)
  /\ k = 0
  /\ n = 0
  /\ polynom = <<>>
  /\ shares = <<>>
  /\ draw = "none"
  /\ call = NoCall
  /\ ret = None
  /\ arith = NoCall
  /\ family = <<>>

\* CompactShamir::split(secret, k, n)
CompactSplit ==
  /\ pc = "idle"
  /\ shamir = "compact"
  /\ \E s \in Secrets(field), nn \in 1..MaxN :
       \E kk \in 1..nn :
         \E p \in generate_polynom(field, kk) :
           /\ check_split_parameters(kk, nn)
           /\ secret' = s
           /\ k' = kk
           /\ n' = nn
           /\ polynom' = p
           /\ shares' = CompactShamir_split(field, s, p, nn)
  /\ pc' = "split"
  /\ UNCHANGED <<field, shamir, draw, call, ret, arith, family>>

\* RandomShamir::split(secret, k, n), up to the loop over the shares.
RandomSplit ==
  /\ pc = "idle"
  /\ shamir = "random"
  /\ \E s \in Secrets(field), nn \in 1..MaxN :
       \E kk \in 1..nn :
         \E p \in generate_polynom(field, kk) :
           /\ check_split_parameters(kk, nn)
           /\ secret' = s
           /\ k' = kk
           /\ n' = nn
           /\ polynom' = p
  /\ shares' = <<>>
  /\ pc' = "retry"
  /\ UNCHANGED <<field, shamir, draw, call, ret, arith, family>>

\* The shares RandomShamir::split returns when the draws it accepts are xs.
RandomShamir_split(f, s, p, xs) ==
  [i \in 1..Len(xs) |-> Share(xs[i], eval_polynom(f, s, p, xs[i]))]

\* The loop without the test: every x is used as drawn.
RandomDraw_as_drawn ==
  /\ pc = "retry"
  /\ \E x \in uniform(field, Len(shares)) :
       /\ draw' = "break"
       /\ shares' = Append(shares, Share(x, eval_polynom(field, secret, polynom, x)))
       /\ pc' = IF Len(shares) + 1 = n THEN "split" ELSE "retry"
  /\ UNCHANGED <<field, shamir, secret, k, n, polynom, call, ret, arith, family>>

\* One turn of the 'retry loop: x is drawn; a zero x or one already used
\* is dropped and the loop goes round again, any other x makes the next
\* share, and split returns after the n-th.
RandomDraw ==
  /\ pc = "retry"
  /\ \E x \in uniform(field, Len(shares)) :
       \/ /\ x = ZERO(field) \/ \E i \in 1..Len(shares) : x = shares[i].x
          /\ draw' = "retry"
          /\ UNCHANGED <<shares, pc>>
       \/ /\ x # ZERO(field)
          /\ \A i \in 1..Len(shares) : x # shares[i].x
          /\ draw' = "break"
          /\ shares' = Append(shares, Share(x, eval_polynom(field, secret, polynom, x)))
          /\ pc' = IF Len(shares) + 1 = n THEN "split" ELSE "retry"
  /\ UNCHANGED <<field, shamir, secret, k, n, polynom, call, ret, arith, family>>

\* S::reconstruct(slice, kk)
Reconstruct ==
  /\ pc = "split"
  /\ \E c \in Calls(Len(shares)) :
         LET given == [i \in 1..Len(c.sel) |-> shares[c.sel[i]]]
             kk == c.k
         IN /\ check_reconstruct_parameters(given, kk)
            /\ call' = [op |-> "reconstruct", shares |-> given, k |-> kk]
            /\ ret' = IF shamir = "compact"
                        THEN CompactShamir_reconstruct(field, given, kk)
                        ELSE RandomShamir_reconstruct(field, given, kk)
  /\ pc' = "done"
  /\ UNCHANGED <<field, shamir, secret, k, n, polynom, shares, draw, arith, family>>

\* S::reconstruct_at(slice, kk, x)
ReconstructAt ==
  /\ pc = "split"
  /\ \E c \in AtCalls(Len(shares)), x \in AtValues(shamir, field, Len(shares)) :
         LET given == [i \in 1..Len(c.sel) |-> shares[c.sel[i]]]
             kk == c.k
         IN /\ check_reconstruct_parameters(given, kk)
            /\ call' = [op |-> "reconstruct_at", shares |-> given, k |-> kk, x |-> x]
            /\ ret' = IF shamir = "compact"
                        THEN CompactShamir_reconstruct_at(field, given, kk, x)
                        ELSE RandomShamir_reconstruct_at(field, given, kk, x)
  /\ pc' = "done"
  /\ UNCHANGED <<field, shamir, secret, k, n, polynom, shares, draw, arith, family>>

Next ==
  \/ CompactSplit
  \/ RandomSplit
  \/ RandomDraw
  \/ Reconstruct
  \/ ReconstructAt

Spec == Init /\ [][Next]_vars

(***************************************************************************)
(* The runs of split(secret, 2, MaxN) on one secret that differ only in    *)
(* the coefficient generate_polynom draws: one run for each element of     *)
(* the field, the random variant accepting the same draws of x in each.    *)
(***************************************************************************)
\* Every value of GF2n<W, NWORDS, A, B, C>: any NWORDS words.
Elements(f) == [Words(f) -> SUBSET (0..(f.wbits - 1))]

InitSecrecy ==
  /\ field = GF8
  /\ shamir \in {"compact", "random"}
  /\ pc = "idle"
  /\ secret = ZERO(field)
  /\ k = 0
  /\ n = 0
  /\ polynom = <<>>
  /\ shares = <<>>
  /\ draw = "none"
  /\ call = NoCall
  /\ ret = None
  /\ arith = NoCall
  /\ family = <<>>

\* S::split(s, 2, MaxN), once for every polynomial generate_polynom can draw.
SplitFamily ==
  /\ pc = "idle"
  /\ check_split_parameters(2, MaxN)
  /\ \E s \in Elements(field) :
       /\ secret' = s
       /\ family' = [p \in [1..1 -> Elements(field)] |->
                       IF shamir = "compact"
                         THEN CompactShamir_split(field, s, p, MaxN)
                         ELSE RandomShamir_split(field, s, p,
                                                 [i \in 1..MaxN |-> fresh(field, i)])]
  /\ k' = 2
  /\ n' = MaxN
  /\ pc' = "family"
  /\ UNCHANGED <<field, shamir, polynom, shares, draw, call, ret, arith>>

NextSecrecy == SplitFamily

SpecSecrecy == InitSecrecy /\ [][NextSecrecy]_vars

(***************************************************************************)
(* Calls of the field operations on elements of the shipped field types.   *)
(***************************************************************************)
FieldTypes == {GF8, GF16, GF64u32}

\* The elements the operations are called on: every element of GF8, the
\* test values of the wider fields.
Operands(f) == IF f = GF8 THEN Elements(f) ELSE get_test_values(f)

\* The right-hand operands of the two-operand calls.
RightOperands(f) ==
  IF f = GF64u32
    THEN {ZERO(f), ONE(f), all_ones(f), xn(f, f.wbits - 1), xn(f, f.wbits),
          xn(f, NBITS(f) - 1), add(f, all_ones(f), xn(f, f.wbits))}
    ELSE get_test_values(f)

\* The operands of invert: it costs 2 * (NBITS - 1) multiplications.
InvertOperands(f) ==
  IF f = GF64u32
    THEN {ZERO(f), ONE(f), all_ones(f), xn(f, f.wbits), xn(f, NBITS(f) - 1)}
    ELSE Operands(f)

\* The third operands of the laws on three elements.
ThirdOperands(f) ==
  IF NBITS(f) >= 64
    THEN {add(f, all_ones(f), xn(f, f.wbits))}
    ELSE {all_ones(f), xn(f, NBITS(f) - 1)}

\* The bytes from_diff is called on: any u, and for v the bytes 0x00, 0x01,
\* 0x47, 0x80, 0xAB, 0xFF.
DiffBytes == {0, 1, 71, 128, 171, 255}

InitField ==
  /\ field \in FieldTypes
  /\ shamir = "none"
  /\ pc = "idle"
  /\ secret = ZERO(field)
  /\ k = 0
  /\ n = 0
  /\ polynom = <<>>
  /\ shares = <<>>
  /\ draw = "none"
  /\ call = NoCall
  /\ ret = None
  /\ arith = NoCall
  /\ family = <<>>

\* x * y
Mul ==
  /\ pc = "idle"
  /\ \E x \in Operands(field), y \in RightOperands(field) :
       arith' = [op |-> "mul", x |-> x, y |-> y, res |-> mul(field, x, y)]
  /\ pc' = "done"
  /\ UNCHANGED <<field, shamir, secret, k, n, polynom, shares, draw, call, ret, family>>

\* x.invert()
Invert ==
  /\ pc = "idle"
  /\ \E x \in InvertOperands(field) :
       arith' = [op |-> "invert", x |-> x, res |-> invert(field, x)]
  /\ pc' = "done"
  /\ UNCHANGED <<field, shamir, secret, k, n, polynom, shares, draw, call, ret, family>>

\* x + y
Add ==
  /\ pc = "idle"
  /\ \E x \in Operands(field), y \in RightOperands(field) :
       arith' = [op |-> "add", x |-> x, y |-> y, res |-> add(field, x, y)]
  /\ pc' = "done"
  /\ UNCHANGED <<field, shamir, secret, k, n, polynom, shares, draw, call, ret, family>>

\* F::from_diff(u, v)
FromDiff ==
  /\ pc = "idle"
  /\ \E u \in 0..255, v \in DiffBytes :
       arith' = [op |-> "from_diff", u |-> u, v |-> v, res |-> from_diff(field, u, v)]
  /\ pc' = "done"
  /\ UNCHANGED <<field, shamir, secret, k, n, polynom, shares, draw, call, ret, family>>

\* The byte slices from_bytes is called on: every slice of at most one byte,
\* and the longer ones, up to one byte more than the field takes, of the
\* bytes 0x01 and 0xec.
ByteSlices(f) ==
  UNION {[1..len -> IF len <= 1 THEN 0..255 ELSE {1, 236}] : len \in 0..(NBYTES(f) + 1)}

\* F::from_bytes(bytes)
FromBytes ==
  /\ pc = "idle"
  /\ \E bytes \in ByteSlices(field) :
       arith' = [op |-> "from_bytes", bytes |-> bytes, res |-> from_bytes(field, bytes)]
  /\ pc' = "done"
  /\ UNCHANGED <<field, shamir, secret, k, n, polynom, shares, draw, call, ret, family>>

NextField ==
  \/ Mul
  \/ Invert
  \/ Add
  \/ FromDiff
  \/ FromBytes

SpecField == InitField /\ [][NextField]_vars

(***************************************************************************)
(* Calls of the three multiplication routines on the same operands.        *)
(***************************************************************************)
MulFieldTypes == {GF8, GF16, GF64u32, GF64, GF128}

\* The operands of the routines: the test values of the narrow fields; of
\* the wide ones, the test values that flip a bit at either end or in the
\* middle, with 0x47.
MulOperands(f) ==
  IF NBITS(f) <= 16
    THEN get_test_values(f)
    ELSE {ZERO(f), ONE(f), from(f, 71), all_ones(f),
          xn(f, f.wbits - 1), xn(f, NBITS(f) - 1), xn(f, NBITS(f) \div 2),
          add(f, all_ones(f), xn(f, NBITS(f) - 1)), add(f, all_ones(f), xn(f, 0))}

InitMul ==
  /\ field \in MulFieldTypes
  /\ shamir = "none"
  /\ pc = "idle"
  /\ secret = ZERO(field)
  /\ k = 0
  /\ n = 0
  /\ polynom = <<>>
  /\ shares = <<>>
  /\ draw = "none"
  /\ call = NoCall
  /\ ret = None
  /\ arith = NoCall
  /\ family = <<>>

\* x.mul_as_add(&y)
MulAsAdd ==
  /\ pc = "idle"
  /\ \E x \in MulOperands(field), y \in MulOperands(field) :
       arith' = [op |-> "mul_as_add", x |-> x, y |-> y, res |-> mul_as_add(field, x, y)]
  /\ pc' = "done"
  /\ UNCHANGED <<field, shamir, secret, k, n, polynom, shares, draw, call, ret, family>>

\* x.mul_fused_carry(&y)
MulFusedCarry ==
  /\ pc = "idle"
  /\ \E x \in MulOperands(field), y \in MulOperands(field) :
       arith' = [op |-> "mul_fused_carry", x |-> x, y |-> y,
                 res |-> mul_fused_carry(field, x, y)]
  /\ pc' = "done"
  /\ UNCHANGED <<field, shamir, secret, k, n, polynom, shares, draw, call, ret, family>>

\* mul_clmul_u64(&x, &y), which exists for the fields of 64-bit words
MulClmul ==
  /\ pc = "idle"
  /\ field.wbits = 64
  /\ \E x \in MulOperands(field), y \in MulOperands(field) :
       arith' = [op |-> "mul_clmul_u64", x |-> x, y |-> y,
                 res |-> mul_clmul_u64(field, x, y)]
  /\ pc' = "done"
  /\ UNCHANGED <<field, shamir, secret, k, n, polynom, shares, draw, call, ret, family>>

NextMul ==
  \/ MulAsAdd
  \/ MulFusedCarry
  \/ MulClmul

SpecMul == InitMul /\ [][NextMul]_vars

(***************************************************************************)
(* Shares written as text and read back.                                   *)
(***************************************************************************)

\* The x parts of the lines a caller hands to parse_share: decimal numbers
\* in and out of the range of a u8, with a leading zero or a sign, no
\* number, and the text of a field element.
XParts(f) ==
  {<<>>, <<"0">>, <<"1">>, <<"2">>, <<"0", "0", "7">>, <<"2", "5", "5">>, <<"2", "5", "6">>,
   <<"1", "0", "0", "0">>, <<"+", "1">>, <<"-", "1">>, <<"x">>, <<"a">>,
   GF2n_fmt(f, from(f, 2)), GF2n_fmt(f, ZERO(f))}

\* What stands between the parts.
Separators == {<<"|">>, <<>>, <<"|", "|">>, <<":">>}

\* The texts of the field elements that end in 0xec and in 0x0a.
YTexts(f) == {GF2n_fmt(f, from(f, 236)), GF2n_fmt(f, from(f, 10))}

\* The y parts: the text of a field element, that text in upper case digits,
\* cut by one or two characters, longer by one or two characters, with a
\* character that is no digit, followed by a blank, and no text.
YParts(f) ==
  {<<>>} \cup UNION {{v,
                      [q \in 1..Len(v) |-> UpperHex[hex_value(v[q]) + 1]],
                      SubSeq(v, 1, Len(v) - 1),
                      SubSeq(v, 1, Len(v) - 2),
                      v \o <<"0">>,
                      v \o <<"0", "0">>,
                      <<"g">> \o Tail(v),
                      v \o <<" ">>} : v \in YTexts(f)}

Lines(f) == {x \o sep \o y : x \in XParts(f), sep \in Separators, y \in YParts(f)}

InitParse ==
  /\ field \in FieldTypes
  /\ shamir \in {"compact", "random"}
  /\ pc = "idle"
  /\ secret = ZERO(field)
  /\ k = 0
  /\ n = 0
  /\ polynom = <<>>
  /\ shares = <<>>
  /\ draw = "none"
  /\ call = NoCall
  /\ ret = None
  /\ arith = NoCall
  /\ family = <<>>

\* format!("{}", share) of a share split returned
Display ==
  /\ pc = "split"
  /\ \E i \in 1..Len(shares) :
       call' = [op |-> "fmt", share |-> shares[i], line |-> Share_fmt(shamir, field, shares[i])]
  /\ pc' = "shown"
  /\ UNCHANGED <<field, shamir, secret, k, n, polynom, shares, draw, ret, arith, family>>

\* A line the caller got from elsewhere.
ReadLine ==
  /\ pc = "idle"
  /\ \E line \in Lines(field) : call' = [op |-> "read", line |-> line]
  /\ pc' = "shown"
  /\ UNCHANGED <<field, shamir, secret, k, n, polynom, shares, draw, ret, arith, family>>

\* S::parse_share(line)
ParseShare ==
  /\ pc = "shown"
  /\ ret' = parse_share(shamir, field, call.line)
  /\ pc' = "done"
  /\ UNCHANGED <<field, shamir, secret, k, n, polynom, shares, draw, call, arith, family>>

NextParse ==
  \/ CompactSplit
  \/ RandomSplit
  \/ RandomDraw
  \/ Display
  \/ ReadLine
  \/ ParseShare

SpecParse == InitParse /\ [][NextParse]_vars

(***************************************************************************)
(* Calls with any shape of arguments.  check_split_parameters and          *)
(* check_reconstruct_parameters are made of debug_assert!, which panics    *)
(* when the build has debug_assertions and is compiled to nothing when it  *)
(* has not; the session's build is either.                                 *)
(***************************************************************************)

\* The numbers of shares split is asked for: up to MaxN, and the first two
\* that do not fit a u8.
ShapeN(S) == IF S = "compact" THEN 0..MaxN \cup {256, 257} ELSE 0..MaxN

\* The selections of produced shares a caller may hand to reconstruct: the
\* first len shares, or those with the first share again in the last place.
ShapeSlices(m) ==
  {[i \in 1..len |-> i] : len \in 0..m}
    \cup {[i \in 1..len |-> IF i = len THEN 1 ELSE i] : len \in 2..m}

\* The x a caller asks reconstruct_at for.
ShapeAtValues(S, f) == IF S = "compact" THEN {0, 1} ELSE {ZERO(f), fresh(f, 1)}

\* S::split(secret, kk, nn) in a build with or without debug_assertions
SplitCall ==
  /\ pc = "idle"
  /\ \E debug_assertions \in BOOLEAN, nn \in ShapeN(shamir), kk \in 0..(MaxN + 1) :
       \E p \in generate_polynom(field, kk) :
         LET s == from(field, 171)
         IN /\ call' = [op |-> "split", k |-> kk, n |-> nn,
                        debug_assertions |-> debug_assertions]
            /\ secret' = s
            /\ k' = kk
            /\ n' = nn
            /\ IF debug_assertions /\ ~check_split_parameters(kk, nn)
                 THEN /\ pc' = "aborted"
                      /\ ret' = Panicked
                      /\ UNCHANGED <<polynom, shares>>
                 ELSE /\ pc' = "split"
                      /\ ret' = None
                      /\ polynom' = p
                      /\ shares' = IF shamir = "compact"
                                     THEN CompactShamir_split(field, s, p, nn)
                                     ELSE RandomShamir_split(field, s, p,
                                                             [i \in 1..nn |-> fresh(field, i)])
  /\ UNCHANGED <<field, shamir, draw, arith, family>>

\* S::reconstruct(given, kk) in the same build
ReconstructCall ==
  /\ pc = "split"
  /\ \E sel \in ShapeSlices(Len(shares)) :
       \E kk \in 0..(Len(sel) + 1) :
         LET given == [i \in 1..Len(sel) |-> shares[sel[i]]]
         IN /\ call' = [op |-> "reconstruct", shares |-> given, k |-> kk,
                        debug_assertions |-> call.debug_assertions]
            /\ ret' = IF call.debug_assertions /\ ~check_reconstruct_parameters(given, kk)
                        THEN Panicked
                        ELSE IF shamir = "compact"
                               THEN CompactShamir_reconstruct(field, given, kk)
                               ELSE RandomShamir_reconstruct(field, given, kk)
  /\ pc' = "done"
  /\ UNCHANGED <<field, shamir, secret, k, n, polynom, shares, draw, arith, family>>

\* S::reconstruct_at(given, kk, x) in the same build
ReconstructAtCall ==
  /\ pc = "split"
  /\ \E sel \in ShapeSlices(Len(shares)), x \in ShapeAtValues(shamir, field) :
       \E kk \in 0..(Len(sel) + 1) :
         LET given == [i \in 1..Len(sel) |-> shares[sel[i]]]
         IN /\ call' = [op |-> "reconstruct_at", shares |-> given, k |-> kk, x |-> x,
                        debug_assertions |-> call.debug_assertions]
            /\ ret' = IF call.debug_assertions /\ ~check_reconstruct_parameters(given, kk)
                        THEN Panicked
                        ELSE IF shamir = "compact"
                               THEN CompactShamir_reconstruct_at(field, given, kk, x)
                               ELSE RandomShamir_reconstruct_at(field, given, kk, x)
  /\ pc' = "done"
  /\ UNCHANGED <<field, shamir, secret, k, n, polynom, shares, draw, arith, family>>

NextShape ==
  \/ SplitCall
  \/ ReconstructCall
  \/ ReconstructAtCall

SpecShape == Init /\ [][NextShape]_vars

(***************************************************************************)
(* RandomShamir::split up to 255 shares, under a generator that returns    *)
(* every value again and again.                                            *)
(***************************************************************************)

\* The test of the 'retry loop: x is zero or the x of a share pushed before.
rejected_with_one(f, pushed, x) ==
  x = ZERO(f) \/ x = ONE(f) \/ \E i \in 1..Len(pushed) : x = pushed[i].x

rejected(f, pushed, x) ==
  x = ZERO(f) \/ \E i \in 1..Len(pushed) : x = pushed[i].x

\* The numbers of shares of these runs: one, two, and every non-zero
\* element of GF8.
SplitSizes == {1, 2, 255}

\* The values F::uniform(rng) returns in these runs: zero, the x of the
\* first and of the last share pushed, and the element after the last
\* share's in the order of the bytes, from 0x01 on, wrapping at 0xff.
uniform_in_order(f, pushed) ==
  {ZERO(f), from(f, (Len(pushed) + 1) % 256)}
    \cup {pushed[i].x : i \in {1, Len(pushed)} \cap (1..Len(pushed))}

InitRandom ==
  /\ field = GF8
  /\ shamir = "random"
  /\ pc = "idle"
  /\ secret = ZERO(field)
  /\ k = 0
  /\ n = 0
  /\ polynom = <<>>
  /\ shares = <<>>
  /\ draw = "none"
  /\ call = NoCall
  /\ ret = None
  /\ arith = NoCall
  /\ family = <<>>

\* RandomShamir::split(secret, kk, nn), up to the loop over the shares.
RandomSplitStart ==
  /\ pc = "idle"
  /\ \E s \in Secrets(field), nn \in SplitSizes :
       \E kk \in 1..Min(nn, 2) :
         \E p \in generate_polynom(field, kk) :
           /\ check_split_parameters(kk, nn)
           /\ secret' = s
           /\ k' = kk
           /\ n' = nn
           /\ polynom' = p
  /\ shares' = <<>>
  /\ pc' = "retry"
  /\ UNCHANGED <<field, shamir, draw, call, ret, arith, family>>

\* One pass of the 'retry loop that ends with continue 'retry.
DrawRejected ==
  /\ pc = "retry"
  /\ \E x \in uniform_in_order(field, shares) : rejected(field, shares, x)
  /\ draw' = "retry"
  /\ UNCHANGED <<field, shamir, pc, secret, k, n, polynom, shares, call, ret, arith, family>>

\* One pass of the 'retry loop that ends with break x, and the push.
DrawAccepted ==
  /\ pc = "retry"
  /\ \E x \in uniform_in_order(field, shares) :
       /\ ~rejected(field, shares, x)
       /\ shares' = Append(shares, Share(x, eval_polynom(field, secret, polynom, x)))
  /\ draw' = "break"
  /\ pc' = IF Len(shares) + 1 = n THEN "split" ELSE "retry"
  /\ UNCHANGED <<field, shamir, secret, k, n, polynom, call, ret, arith, family>>

NextRandom ==
  \/ RandomSplitStart
  \/ DrawRejected
  \/ DrawAccepted

\* The generator returns every value again and again: a value that the loop
\* accepts each time it is drawn is drawn in the end.
SpecRandom == InitRandom /\ [][NextRandom]_vars /\ SF_vars(DrawAccepted)

(***************************************************************************)
(* Calls of the shifts.                                                    *)
(***************************************************************************)

\* x.shl_word(shift)
ShlWord ==
  /\ pc = "idle"
  /\ \E x \in MulOperands(field), shift \in 1..(field.wbits - 1) :
       arith' = [op |-> "shl_word", x |-> x, shift |-> shift, res |-> shl_word(field, x, shift)]
  /\ pc' = "done"
  /\ UNCHANGED <<field, shamir, secret, k, n, polynom, shares, draw, call, ret, family>>

\* x.shlt()
Shlt ==
  /\ pc = "idle"
  /\ \E x \in MulOperands(field) :
       arith' = [op |-> "shlt", x |-> x, res |-> shlt(field, x)]
  /\ pc' = "done"
  /\ UNCHANGED <<field, shamir, secret, k, n, polynom, shares, draw, call, ret, family>>

\* x << shift
ShlCall ==
  /\ pc = "idle"
  /\ \E x \in MulOperands(field), shift \in 0..(NBITS(field) - 1) :
       arith' = [op |-> "shl", x |-> x, shift |-> shift, res |-> shl(field, x, shift)]
  /\ pc' = "done"
  /\ UNCHANGED <<field, shamir, secret, k, n, polynom, shares, draw, call, ret, family>>

NextShift ==
  \/ ShlWord
  \/ Shlt
  \/ ShlCall

SpecShift == InitMul /\ [][NextShift]_vars

(***************************************************************************)
(* The loop "while carry != W::ZERO" of the fields of one word, pass by    *)
(* pass: arith holds the word and the carry of the running loop.           *)
(***************************************************************************)
SingleWordFields == {GF8, GF16, GF32, GF64, GF128u128}

\* The words the loops are entered with: every word of u8; of the wider
\* words, the runs of bits from either end, the single bits and the bits of
\* even position.
CarryWords(f) ==
  IF f.wbits = 8
    THEN SUBSET (0..7)
    ELSE {W_ZERO, {j \in 0..(f.wbits - 1) : j % 2 = 0}}
           \cup {i..(f.wbits - 1) : i \in 0..(f.wbits - 1)}
           \cup {0..i : i \in 0..(f.wbits - 1)}
           \cup {{i} : i \in 0..(f.wbits - 1)}

\* The number of bits of c up to its highest set bit.
significant_bits(c) ==
  IF c = W_ZERO THEN 0 ELSE (CHOOSE m \in c : \A j \in c : j <= m) + 1

InitReduce ==
  /\ field \in SingleWordFields
  /\ shamir = "none"
  /\ pc = "idle"
  /\ secret = ZERO(field)
  /\ k = 0
  /\ n = 0
  /\ polynom = <<>>
  /\ shares = <<>>
  /\ draw = "none"
  /\ call = NoCall
  /\ ret = None
  /\ arith = NoCall
  /\ family = <<>>

\* shl_word(shift), NWORDS = 1, up to the loop.
ShlWordEnter ==
  /\ pc = "idle"
  /\ \E d \in CarryWords(field), shift \in {1, field.wbits \div 2, field.wbits - 1} :
       arith' = [op |-> "shl_word", word0 |-> Shl(field, d, shift),
                 carry0 |-> Shr(d, field.wbits - shift),
                 word |-> Shl(field, d, shift),
                 carry |-> Shr(d, field.wbits - shift), passes |-> 0]
  /\ pc' = "loop"
  /\ UNCHANGED <<field, shamir, secret, k, n, polynom, shares, draw, call, ret, family>>

\* shlt(), NWORDS = 1, up to the loop.
ShltEnter ==
  /\ pc = "idle"
  /\ \E d \in CarryWords(field) :
       arith' = [op |-> "shlt", word0 |-> W_ZERO, carry0 |-> d,
                 word |-> W_ZERO, carry |-> d, passes |-> 0]
  /\ pc' = "loop"
  /\ UNCHANGED <<field, shamir, secret, k, n, polynom, shares, draw, call, ret, family>>

\* propagate_carries(words, carry), NWORDS = 1, up to the loop.
PropagateEnter ==
  /\ pc = "idle"
  /\ \E w \in {W_ZERO, 0..(field.wbits - 1)}, c \in CarryWords(field) :
       arith' = [op |-> "propagate_carries", word0 |-> w, carry0 |-> c,
                 word |-> w, carry |-> c, passes |-> 0]
  /\ pc' = "loop"
  /\ UNCHANGED <<field, shamir, secret, k, n, polynom, shares, draw, call, ret, family>>

\* One pass of the body of the loop.
CarryPass ==
  /\ pc = "loop"
  /\ arith.carry # W_ZERO
  /\ arith' = [arith EXCEPT !.word = BitXor(@, carry_low(field, arith.carry)),
                            !.carry = carry_high(field, arith.carry),
                            !.passes = @ + 1]
  /\ UNCHANGED <<field, shamir, pc, secret, k, n, polynom, shares, draw, call, ret, family>>

\* The test of the loop fails.
CarryExit ==
  /\ pc = "loop"
  /\ arith.carry = W_ZERO
  /\ pc' = "done"
  /\ UNCHANGED <<field, shamir, secret, k, n, polynom, shares, draw, call, ret, arith, family>>

NextReduce ==
  \/ ShlWordEnter
  \/ ShltEnter
  \/ PropagateEnter
  \/ CarryPass
  \/ CarryExit

\* A loop that has been entered goes on running.
SpecReduce == InitReduce /\ [][NextReduce]_vars /\ WF_vars(CarryPass) /\ WF_vars(CarryExit)

(***************************************************************************)
(* The amounts by which the routines shift a word: arith holds the amounts *)
(* of one call and, of Shl::shl, the arguments it passes to shl_word.      *)
(***************************************************************************)
\* Every alias pub type GFn = GF2n<W, NWORDS, A, B, C>.
FieldAliases ==
  {GF8, GF16, GF32, GF64, GF64u32, GF128u128, GF128,
   [name |-> "GF128u32", wbits |-> 32, nwords |-> 4, a |-> 7, b |-> 2, c |-> 1],
   [name |-> "GF256u128", wbits |-> 128, nwords |-> 2, a |-> 10, b |-> 5, c |-> 2],
   [name |-> "GF256", wbits |-> 64, nwords |-> 4, a |-> 10, b |-> 5, c |-> 2],
   [name |-> "GF256u32", wbits |-> 32, nwords |-> 8, a |-> 10, b |-> 5, c |-> 2],
   [name |-> "GF192", wbits |-> 64, nwords |-> 3, a |-> 7, b |-> 2, c |-> 1],
   [name |-> "GF384", wbits |-> 64, nwords |-> 6, a |-> 12, b |-> 3, c |-> 2],
   [name |-> "GF512", wbits |-> 64, nwords |-> 8, a |-> 8, b |-> 5, c |-> 2],
   [name |-> "GF768", wbits |-> 64, nwords |-> 12, a |-> 19, b |-> 17, c |-> 4],
   [name |-> "GF1024", wbits |-> 64, nwords |-> 16, a |-> 19, b |-> 6, c |-> 1],
   [name |-> "GF1536", wbits |-> 64, nwords |-> 24, a |-> 21, b |-> 6, c |-> 2],
   [name |-> "GF2048", wbits |-> 64, nwords |-> 32, a |-> 19, b |-> 14, c |-> 13]}

\* The shifts of c ^ (c << A) ^ (c << B) ^ (c << C) and of
\* (c >> (W::NBITS - A)) ^ (c >> (W::NBITS - B)) ^ (c >> (W::NBITS - C)).
reduction_shifts(f) ==
  {f.a, f.b, f.c, f.wbits - f.a, f.wbits - f.b, f.wbits - f.c}

\* Shl::shl ending its loop one word late.
RECURSIVE shl_word_calls_late_exit(_, _)
shl_word_calls_late_exit(f, shift) ==
  IF shift > f.wbits THEN shl_word_calls_late_exit(f, shift - f.wbits)
  ELSE IF shift # 0 THEN {shift}
  ELSE {}

\* The arguments of the calls of shl_word that self << shift makes.
RECURSIVE shl_word_calls(_, _)
shl_word_calls(f, shift) ==
  IF shift >= f.wbits THEN shl_word_calls(f, shift - f.wbits)
  ELSE IF shift # 0 THEN {shift}
  ELSE {}

InitShifts ==
  /\ field \in FieldAliases
  /\ shamir = "none"
  /\ pc = "idle"
  /\ secret = ZERO(field)
  /\ k = 0
  /\ n = 0
  /\ polynom = <<>>
  /\ shares = <<>>
  /\ draw = "none"
  /\ call = NoCall
  /\ ret = None
  /\ arith = NoCall
  /\ family = <<>>

\* shl1(), its last word with or without its top bit.
Shl1Shifts ==
  /\ pc = "idle"
  /\ \E carried \in BOOLEAN :
       arith' = [op |-> "shl1", carried |-> carried, shl_word |-> {},
                 shifts |-> {1, field.wbits - 1}
                              \cup (IF carried THEN {field.a, field.b, field.c} ELSE {})]
  /\ pc' = "done"
  /\ UNCHANGED <<field, shamir, secret, k, n, polynom, shares, draw, call, ret, family>>

\* shl_word(shift), with or without a carry out of a single word.
ShlWordShifts ==
  /\ pc = "idle"
  /\ \E shift \in 1..(field.wbits - 1), carried \in BOOLEAN :
       arith' = [op |-> "shl_word", shift |-> shift, carried |-> carried, shl_word |-> {},
                 shifts |-> {shift, field.wbits - shift}
                              \cup (IF field.nwords = 1 /\ ~carried THEN {}
                                    ELSE reduction_shifts(field))]
  /\ pc' = "done"
  /\ UNCHANGED <<field, shamir, secret, k, n, polynom, shares, draw, call, ret, family>>

\* shlt(), with or without a carry out of a single word.
ShltShifts ==
  /\ pc = "idle"
  /\ \E carried \in BOOLEAN :
       arith' = [op |-> "shlt", carried |-> carried, shl_word |-> {},
                 shifts |-> IF field.nwords = 1 /\ ~carried THEN {}
                            ELSE reduction_shifts(field)]
  /\ pc' = "done"
  /\ UNCHANGED <<field, shamir, secret, k, n, polynom, shares, draw, call, ret, family>>

\* propagate_carries(words, carry), with or without a carry in a single
\* word.
PropagateCarriesShifts ==
  /\ pc = "idle"
  /\ \E carried \in BOOLEAN :
       arith' = [op |-> "propagate_carries", carried |-> carried, shl_word |-> {},
                 shifts |-> IF field.nwords = 1 /\ ~carried THEN {}
                            ELSE reduction_shifts(field)]
  /\ pc' = "done"
  /\ UNCHANGED <<field, shamir, secret, k, n, polynom, shares, draw, call, ret, family>>

\* self.mul_fused_carry(other), other's words having the bits J set.
MulFusedCarryShifts ==
  /\ pc = "idle"
  /\ \E J \in {{}, 0..(field.wbits - 1)} \cup {{j} : j \in 0..(field.wbits - 1)} :
       arith' = [op |-> "mul_fused_carry", bits |-> J, shl_word |-> {},
                 shifts |-> (0..(field.wbits - 1))
                              \cup J
                              \cup {field.wbits - j : j \in J \ {0}}
                              \cup (IF field.nwords = 1 /\ J \subseteq {0} THEN {}
                                    ELSE reduction_shifts(field))]
  /\ pc' = "done"
  /\ UNCHANGED <<field, shamir, secret, k, n, polynom, shares, draw, call, ret, family>>

\* self << shift
ShlShifts ==
  /\ pc = "idle"
  /\ \E shift \in 0..(NBITS(field) - 1) :
       LET calls == shl_word_calls(field, shift)
       IN arith' = [op |-> "shl", shift |-> shift, shl_word |-> calls,
                    shifts |-> UNION {{s, field.wbits - s} : s \in calls}
                                 \cup (IF shift = 0 THEN {} ELSE reduction_shifts(field))]
  /\ pc' = "done"
  /\ UNCHANGED <<field, shamir, secret, k, n, polynom, shares, draw, call, ret, family>>

NextShifts ==
  \/ Shl1Shifts
  \/ ShlWordShifts
  \/ ShltShifts
  \/ PropagateCarriesShifts
  \/ MulFusedCarryShifts
  \/ ShlShifts

SpecShifts == InitShifts /\ [][NextShifts]_vars

(***************************************************************************)
(* Properties of the sessions.                                             *)
(***************************************************************************)

\* C1: Shamir round-trip.  For CompactShamir and RandomShamir alike, once
\* split(secret, k, n) has returned its shares, reconstruct called on the
\* whole vector of shares with the same threshold k returns Some(secret),
\* whatever the secret, the coefficients and the x-coordinates drawn.
C1_RoundTrip ==
  (pc = "done" /\ call.op = "reconstruct" /\ call.shares = shares /\ call.k = k)
    => ret = Some(secret)

C1_Witness ==
  /\ pc = "done"
  /\ shamir = "random"
  /\ k = 2
  /\ n = 3
  /\ call.op = "reconstruct"
  /\ call.shares = shares
  /\ call.k = 2
  /\ shares[1].y # secret
  /\ ret = Some(secret)

\* C2: subset independence.  reconstruct called with threshold k on any k
\* of the n shares split(secret, k, n) produced, in any order, returns
\* Some(secret): the result depends neither on the choice nor on the order.
C2_SubsetIndependence ==
  (pc = "done" /\ call.op = "reconstruct" /\ Len(call.shares) = k /\ call.k = k)
    => ret = Some(secret)

C2_Witness ==
  /\ pc = "done"
  /\ shamir = "compact"
  /\ k = 2
  /\ n = 3
  /\ call.op = "reconstruct"
  /\ call.k = 2
  /\ call.shares = <<shares[3], shares[1]>>
  /\ ret = Some(secret)

\* C8: over-fitted reconstruction.  reconstruct called on the whole vector
\* of split(secret, k, n) with a threshold k' such that k <= k' <= n returns
\* Some(secret); k' = n interpolates over all the shares.
C8_Overfit ==
  (pc = "done" /\ call.op = "reconstruct" /\ call.shares = shares
     /\ k <= call.k /\ call.k <= n)
    => ret = Some(secret)

C8_Witness ==
  /\ pc = "done"
  /\ shamir = "random"
  /\ k = 2
  /\ n = 3
  /\ call.op = "reconstruct"
  /\ call.shares = shares
  /\ call.k = 3
  /\ ret = Some(secret)

\* The field element of a share's x: F::from(x) for the byte of a compact
\* share, x itself for the element of a random share.
gf(S, f, x) == IF S = "compact" THEN from(f, x) ELSE x

\* x^j, by j multiplications from ONE.
pow(f, x, j) == Iterate(LAMBDA acc, t : mul(f, acc, x), ONE(f), 0, j)

\* P(x) = secret + a_1 x + ... + a_{k-1} x^{k-1}, each power taken on its own.
P(f, s, a, x) ==
  Iterate(LAMBDA acc, j : add(f, acc, mul(f, a[j], pow(f, x, j))), s, 1, Len(a) + 1)

\* C4: reconstruct_at evaluates the shared polynomial.  Given k shares of
\* split(secret, k, n) and the threshold k, reconstruct_at(shares, k, x)
\* returns Some((x, P(x))), P being the polynomial split used; when x is the
\* x-coordinate of a share split produced, supplied or not, the result is
\* that share.
C4_ReconstructAtEvaluates ==
  (pc = "done" /\ call.op = "reconstruct_at" /\ call.k = k)
    => /\ ret = Some(Share(call.x, P(field, secret, polynom, gf(shamir, field, call.x))))
       /\ \A j \in 1..n : call.x = shares[j].x => ret = Some(shares[j])

C4_Witness ==
  /\ pc = "done"
  /\ shamir = "random"
  /\ k = 2
  /\ n = 3
  /\ call.op = "reconstruct_at"
  /\ call.k = 2
  /\ call.shares = <<shares[1], shares[2]>>
  /\ call.x = shares[3].x
  /\ ret = Some(shares[3])
  /\ shares[3].y # secret

\* C5: in the compact variant, reconstruct_at on the shares split(secret, k,
\* n) returned, with the threshold k and x = 0, returns the share (0,
\* secret); its y is what reconstruct returns on the same arguments.
C5_CompactAtZero ==
  (pc = "done" /\ shamir = "compact" /\ call.op = "reconstruct_at"
     /\ call.shares = shares /\ call.k = k /\ call.x = 0)
    => /\ ret = Some(Share(0, secret))
       /\ Some(ret.value.y) = CompactShamir_reconstruct(field, call.shares, call.k)

C5_Witness ==
  /\ pc = "done"
  /\ shamir = "compact"
  /\ k = 3
  /\ n = 3
  /\ call.op = "reconstruct_at"
  /\ call.shares = shares
  /\ call.k = 3
  /\ call.x = 0
  /\ ret = Some(Share(0, secret))

\* C6: split returns exactly n shares with x-coordinates that are non-zero
\* and pairwise distinct.  Compact: the i-th share has x = i, the bytes 1..n
\* in order.  Random: every x pushed differs from ZERO and from every x
\* pushed before it, at each turn of the loop.
C6_SplitShares ==
  /\ pc \in {"split", "done"} => Len(shares) = n
  /\ pc = "retry" => Len(shares) < n
  /\ shamir = "compact" =>
       \A i \in 1..Len(shares) : shares[i].x = i /\ shares[i].x # 0
  /\ shamir = "random" =>
       \A i \in 1..Len(shares) :
         /\ shares[i].x # ZERO(field)
         /\ \A j \in 1..(i - 1) : shares[j].x # shares[i].x

C6_Witness ==
  /\ pc = "split"
  /\ shamir = "random"
  /\ n = 3
  /\ Len(shares) = 3
  /\ draw = "break"

\* C7: every share (x, y) of split(secret, k, n) has y = secret + the sum
\* over j = 1..k-1 of a_j * x^j, the a_j being the coefficients
\* generate_polynom drew.  With k = 1 nothing is drawn and y = secret.  In
\* GF(2^8), secret 0xAB, k = 2, a_1 = 0x47: the compact share at x = 1 is
\* (1, 0xEC).
C7_ShareOnPolynomial ==
  /\ Len(polynom) = (IF pc = "idle" THEN 0 ELSE k - 1)
  /\ pc \in {"retry", "split"} =>
       \A i \in 1..Len(shares) :
         /\ shares[i].y = P(field, secret, polynom, gf(shamir, field, shares[i].x))
         /\ k = 1 => shares[i].y = secret
  /\ (pc = "split" /\ shamir = "compact" /\ field = GF8 /\ secret = from(GF8, 171)
        /\ k = 2 /\ polynom = <<from(GF8, 71)>>)
       => shares[1] = Share(1, from(GF8, 236))

C7_Witness ==
  /\ pc = "split"
  /\ shamir = "compact"
  /\ field = GF8
  /\ secret = from(GF8, 171)
  /\ k = 2
  /\ n = 2
  /\ polynom = <<from(GF8, 71)>>
  /\ shares[1] = Share(1, from(GF8, 236))
  /\ shares[2].y = add(GF8, secret, mul(GF8, from(GF8, 71), from(GF8, 2)))

(***************************************************************************)
(* Properties of the runs of split that differ in the polynomial.          *)
(***************************************************************************)

\* C3: secrecy below the threshold, for the threshold k = 2 in GF(2^8).
\* Take the runs of split(secret, 2, n) on one candidate secret, one for
\* each coefficient, and one share position i (fewer than k shares are
\* observed).  All runs give the share the same x; every element of the
\* field is the y of some run; and there are as many runs as elements, so
\* each view (x, y) is explained by exactly one coefficient.  As this holds
\* for every candidate secret, a view is consistent with every secret, each
\* explained by the same number of coefficient vectors, one.
C3_Secrecy ==
  pc = "family" =>
    \A i \in 1..n :
      /\ Cardinality({family[p][i].x : p \in DOMAIN family}) = 1
      /\ {family[p][i].y : p \in DOMAIN family} = Elements(field)
      /\ Cardinality(DOMAIN family) = Cardinality(Elements(field))

\* The view (1, 0xEC), the one of secret 0xAB with coefficient 0x47, is
\* produced from the secret 0xFF too.
C3_Witness ==
  /\ pc = "family"
  /\ shamir = "compact"
  /\ k = 2
  /\ secret = all_ones(GF8)
  /\ \E p \in DOMAIN family :
       /\ family[p][1] = Share(1, from(GF8, 236))
       /\ p # <<from(GF8, 71)>>

(***************************************************************************)
(* Properties of the field operations.                                     *)
(***************************************************************************)

\* The polynomial of an element: the exponents of its non-zero terms, bit i
\* of word w being the coefficient of x^(w * W::NBITS + i).
Exponents(f, v) == UNION {{w * f.wbits + i : i \in v[w]} : w \in Words(f)}

\* The element of a polynomial of degree below n.
Element(f, poly) == [w \in Words(f) |-> {i \in 0..(f.wbits - 1) : w * f.wbits + i \in poly}]

\* The product of two polynomials over GF(2), without reduction: x^d has
\* coefficient 1 when an odd number of pairs of terms multiply to it.
CarrylessProduct(f, pa, pb) ==
  {d \in 0..(2 * NBITS(f) - 2) : Cardinality({i \in pa : (d - i) \in pb}) % 2 = 1}

\* r(x) = x^n + x^A + x^B + x^C + 1.
Modulus(f) == {NBITS(f), f.a, f.b, f.c, 0}

\* poly mod r(x): from the highest degree down, a term x^d with d >= n is
\* cancelled by adding x^(d-n) * r(x).
Reduce(f, poly) ==
  Iterate(LAMBDA acc, t :
            LET d == 2 * NBITS(f) - 2 - t
            IN IF d \in acc
                 THEN (acc \ {d - NBITS(f) + e : e \in Modulus(f)})
                        \cup ({d - NBITS(f) + e : e \in Modulus(f)} \ acc)
                 ELSE acc,
          poly, 0, NBITS(f) - 1)

\* C9: the multiplication operator returns the carry-less polynomial
\* product of its operands reduced modulo r(x) = x^n + x^A + x^B + x^C + 1,
\* bit i of word w being the coefficient of x^(w * b + i).
C9_MulIsProductModR ==
  arith.op = "mul" =>
    arith.res = Element(field, Reduce(field, CarrylessProduct(field,
                                                              Exponents(field, arith.x),
                                                              Exponents(field, arith.y))))

C9_Witness ==
  /\ arith.op = "mul"
  /\ field = GF64u32
  /\ arith.x = all_ones(GF64u32)
  /\ arith.y = xn(GF64u32, 63)
  /\ arith.res # ZERO(GF64u32)
  /\ arith.res # arith.x

\* C10: non-zero inverse.  For every non-zero element x,
\* x * invert(x) = ONE and invert(x) * x = ONE.
C10_NonZeroInverse ==
  (arith.op = "invert" /\ arith.x # ZERO(field))
    => /\ mul(field, arith.x, arith.res) = ONE(field)
       /\ mul(field, arith.res, arith.x) = ONE(field)

C10_Witness ==
  /\ arith.op = "invert"
  /\ field = GF16
  /\ arith.x = all_ones(GF16)
  /\ arith.res # arith.x
  /\ mul(GF16, arith.x, arith.res) = ONE(GF16)

\* C11: multiplication is commutative and associative: for all elements x,
\* y, z, zero included, x * y = y * x and (x * y) * z = x * (y * z).
C11_MulCommutativeAssociative ==
  arith.op = "mul" =>
    /\ mul(field, arith.y, arith.x) = arith.res
    /\ \A z \in ThirdOperands(field) :
         mul(field, arith.res, z) = mul(field, arith.x, mul(field, arith.y, z))

C11_Witness ==
  /\ arith.op = "mul"
  /\ field = GF64u32
  /\ arith.x = xn(GF64u32, 63)
  /\ arith.y = all_ones(GF64u32)
  /\ arith.res # ZERO(GF64u32)
  /\ arith.res = mul(GF64u32, arith.y, arith.x)

\* C12: distributivity: for all elements x, y, z, x * (y + z) = x * y + x * z.
C12_Distributive ==
  arith.op = "mul" =>
    \A z \in ThirdOperands(field) :
      mul(field, arith.x, add(field, arith.y, z))
        = add(field, arith.res, mul(field, arith.x, z))

C12_Witness ==
  /\ arith.op = "mul"
  /\ field = GF16
  /\ arith.x = all_ones(GF16)
  /\ arith.y = xn(GF16, 15)
  /\ arith.res # ZERO(GF16)
  /\ mul(GF16, arith.x, add(GF16, arith.y, all_ones(GF16))) # arith.res

\* C13: additive group laws.  Addition is the word-wise XOR, and for all
\* x, y, z: (x + y) + z = x + (y + z), x + y = y + x, x + ZERO = ZERO + x =
\* x, x - x = ZERO, and subtraction coincides with addition.
C13_AdditiveGroup ==
  arith.op = "add" =>
    /\ arith.res = [w \in Words(field) |->
                      {i \in 0..(field.wbits - 1) : (i \in arith.x[w]) # (i \in arith.y[w])}]
    /\ add(field, arith.y, arith.x) = arith.res
    /\ \A z \in ThirdOperands(field) :
         add(field, arith.res, z) = add(field, arith.x, add(field, arith.y, z))
    /\ add(field, arith.x, ZERO(field)) = arith.x
    /\ add(field, ZERO(field), arith.x) = arith.x
    /\ sub(field, arith.x, arith.x) = ZERO(field)
    /\ sub(field, arith.x, arith.y) = arith.res

C13_Witness ==
  /\ arith.op = "add"
  /\ field = GF64u32
  /\ arith.x = all_ones(GF64u32)
  /\ arith.y = xn(GF64u32, 32)
  /\ arith.res = [w \in 0..1 |-> IF w = 0 THEN 0..31 ELSE 1..31]

\* C14: multiplicative unit and annihilator: for every element x,
\* ONE * x = x * ONE = x and ZERO * x = x * ZERO = ZERO.
C14_UnitAndAnnihilator ==
  arith.op = "mul" =>
    /\ arith.y = ONE(field) => arith.res = arith.x
    /\ arith.y = ZERO(field) => arith.res = ZERO(field)
    /\ mul(field, ONE(field), arith.x) = arith.x
    /\ mul(field, ZERO(field), arith.x) = ZERO(field)

C14_Witness ==
  /\ arith.op = "mul"
  /\ field = GF64u32
  /\ arith.x = all_ones(GF64u32)
  /\ arith.y = ONE(GF64u32)
  /\ arith.res = all_ones(GF64u32)

\* C16: from_diff(u, v) = from(u) - from(v) for every pair of bytes: the
\* element whose word 0 is u XOR v and whose other words are zero.
C16_FromDiff ==
  arith.op = "from_diff" =>
    /\ arith.res = sub(field, from(field, arith.u), from(field, arith.v))
    /\ arith.res[0] = {i \in 0..7 : ((arith.u \div (2 ^ i)) % 2) # ((arith.v \div (2 ^ i)) % 2)}
    /\ \A w \in Words(field) \ {0} : arith.res[w] = W_ZERO

C16_Witness ==
  /\ arith.op = "from_diff"
  /\ field = GF64u32
  /\ arith.u = 236
  /\ arith.v = 171
  /\ arith.res = from(GF64u32, 71)

(***************************************************************************)
(* Properties of the multiplication routines.                              *)
(***************************************************************************)

\* C15: multiplication equivalence.  On the same operands mul_fused_carry
\* and, for 64-bit words, mul_clmul_u64 return the very words mul_as_add
\* returns, in single-word and in multi-word fields: the partial products
\* accumulated at the indices i+j and i+j+1, then propagate_carries, agree
\* with the bit-by-bit shift-and-add.
C15_MulEquivalence ==
  arith.op \in {"mul_fused_carry", "mul_clmul_u64"} =>
    arith.res = mul_as_add(field, arith.x, arith.y)

C15_Witness ==
  /\ arith.op = "mul_clmul_u64"
  /\ field = GF128
  /\ arith.x = all_ones(GF128)
  /\ arith.y = add(GF128, all_ones(GF128), xn(GF128, 0))
  /\ arith.res = mul_fused_carry(GF128, arith.x, arith.y)
  /\ arith.res # ZERO(GF128)

\* C17: from_bytes returns None exactly when the length of the input is not
\* NBYTES = n/8, and never panics; on an input of NBYTES bytes it returns
\* Some(element) where bit p of word i is bit p mod 8 of the byte p div 8
\* places before the last byte of the i-th group of W::NBYTES bytes (the
\* big-endian value of the group), so that word 0 comes from the first bytes.
C17_FromBytes ==
  arith.op = "from_bytes" =>
    LET wn == field.wbits \div 8
        len == Len(arith.bytes)
    IN /\ arith.res # Panicked
       /\ (arith.res = None) <=> (len # NBITS(field) \div 8)
       /\ len = NBITS(field) \div 8 =>
            /\ arith.res.some
            /\ \A i \in Words(field) :
                 arith.res.value[i] =
                   {p \in 0..(field.wbits - 1) :
                      (arith.bytes[i * wn + wn - (p \div 8)] \div (2 ^ (p % 8))) % 2 = 1}

C17_Witness ==
  /\ arith.op = "from_bytes"
  /\ field = GF64u32
  /\ arith.bytes = <<1, 236, 236, 236, 236, 1, 1, 1>>
  /\ arith.res = Some([i \in Words(GF64u32) |->
                         IF i = 0 THEN {24} \cup {2, 3, 5, 6, 7, 10, 11, 13, 14, 15, 18, 19, 21, 22, 23}
                                  ELSE {0, 8, 16} \cup {26, 27, 29, 30, 31}])

(***************************************************************************)
(* Properties of the text form of shares.                                  *)
(***************************************************************************)

\* C18: format round trip.  Every share split returns, compact or random,
\* is written as x, "|" and y, where x is a decimal number (compact) or the
\* zero-padded hexadecimal words of a field element (random) and y is the
\* zero-padded hexadecimal words of a field element, and parse_share of that
\* text returns Some of the very share; from_bytes of hex::decode of the
\* Display form of its field elements returns Some of the elements.
C18_FormatRoundTrip ==
  call.op = "fmt" =>
    LET s == call.share
        ytext == GF2n_fmt(field, s.y)
        xtext == IF shamir = "compact" THEN u8_fmt(s.x) ELSE GF2n_fmt(field, s.x)
    IN /\ call.line = xtext \o <<"|">> \o ytext
       /\ Len(ytext) = 2 * NBYTES(field)
       /\ hex_decode(ytext).some
       /\ from_bytes(field, hex_decode(ytext).value) = Some(s.y)
       /\ shamir = "compact" => Some(s.x) = parse_u8(xtext) /\ xtext[1] # "0"
       /\ shamir = "random" =>
            /\ Len(xtext) = 2 * NBYTES(field)
            /\ hex_decode(xtext).some
            /\ from_bytes(field, hex_decode(xtext).value) = Some(s.x)
       /\ pc = "done" => ret = Some(s)

C18_Witness ==
  /\ pc = "done"
  /\ call.op = "fmt"
  /\ field = GF64u32
  /\ shamir = "random"
  /\ call.share.y[0] # call.share.y[1]
  /\ call.share.x[0] # call.share.x[1]
  /\ ret = Some(call.share)

\* C19: compact parse_share accepts a line exactly when it is a decimal x
\* in 1..=255, a "|" and a y of exactly 2 * (n/8) hexadecimal characters,
\* and returns None for every other line: x = 0, x > 255, an empty x or one
\* that is no number, no "|", a y of another length or with a character
\* that is no hexadecimal digit.  The accepted line gives the x and the y
\* it spells.
C19_WellFormed ==
  \E q \in 1..Len(call.line) :
    /\ call.line[q] = "|"
    /\ 1 < q
    /\ \A i \in 1..(q - 1) : is_digit(call.line[i])
    /\ u8_value(SubSeq(call.line, 1, q - 1)) \in 1..255
    /\ Len(call.line) - q = 2 * (NBITS(field) \div 8)
    /\ \A i \in (q + 1)..Len(call.line) : is_hex(call.line[i])

C19_CompactParseShare ==
  (shamir = "compact" /\ call.op = "read" /\ pc = "done") =>
    /\ ret # Panicked
    /\ ret.some <=> C19_WellFormed

\* The line "0|ec" read for GF8: parse_share returns the share x = 0, y = 0xec.
C19_Witness ==
  /\ shamir = "compact"
  /\ field = GF8
  /\ pc = "done"
  /\ call.op = "read"
  /\ call.line = <<"0", "|", "e", "c">>
  /\ ret = Some(Share(0, from(GF8, 236)))

(***************************************************************************)
(* Properties of the calls with any shape of arguments.                    *)
(***************************************************************************)

\* C20: violations of the shape preconditions are fatal.  split called
\* with k = 0, k > n or n >= 256 aborts and returns no shares; reconstruct
\* and reconstruct_at called with k = 0, with fewer shares than k, or with
\* two shares of the same x-coordinate abort and return no value.
C20_ShapeViolationsFatal ==
  /\ (call.op = "split" /\ (call.k = 0 \/ call.k > call.n \/ call.n >= 256)) =>
       /\ pc = "aborted"
       /\ ret = Panicked
       /\ shares = <<>>
  /\ (/\ call.op \in {"reconstruct", "reconstruct_at"}
      /\ \/ call.k = 0
         \/ Len(call.shares) < call.k
         \/ \E i, j \in 1..Len(call.shares) : i # j /\ call.shares[i].x = call.shares[j].x) =>
       ret = Panicked

\* In a build without debug_assertions split(secret, 0, 2) returned two
\* shares, and reconstruct of the first share given twice with k = 2
\* returned a value.
C20_Witness ==
  /\ call.op = "reconstruct"
  /\ ~call.debug_assertions
  /\ k = 0
  /\ n = 2
  /\ Len(shares) = 2
  /\ call.k = 2
  /\ Len(call.shares) = 2
  /\ call.shares[1] = call.shares[2]
  /\ ret.some

\* The shares all lie on the polynomial of degree < kk that passes through
\* the first kk of them.
C21_Consistent(S, f, given, kk) ==
  LET first == SubSeq(given, 1, kk)
  IN \A j \in 1..Len(given) :
       (IF S = "compact"
          THEN CompactShamir_reconstruct_at(f, first, kk, given[j].x)
          ELSE RandomShamir_reconstruct_at(f, first, kk, given[j].x)).value.y = given[j].y

\* C21: reconstruct and reconstruct_at return None when reconstruction
\* failed: called with shares that do not all lie on one polynomial of
\* degree < k, or with two shares of the same x-coordinate (a zero Lagrange
\* denominator), a call that returns returns None, not Some(value).
C21_NoneWhenInconsistent ==
  (/\ call.op \in {"reconstruct", "reconstruct_at"}
   /\ ret # Panicked
   /\ call.k >= 1
   /\ Len(call.shares) >= call.k
   /\ \/ \E i, j \in 1..Len(call.shares) : i # j /\ call.shares[i].x = call.shares[j].x
      \/ ~C21_Consistent(shamir, field, call.shares, call.k)) =>
    ret = None

\* In a build with debug_assertions, the three shares of a split with k = 3
\* handed to reconstruct with k = 2: the preconditions hold, the shares lie
\* on no line, and the call returned Some of a value that is not the secret.
C21_Witness ==
  /\ call.op = "reconstruct"
  /\ call.debug_assertions
  /\ k = 3
  /\ call.k = 2
  /\ call.shares = shares
  /\ Len(shares) = 3
  /\ check_reconstruct_parameters(call.shares, call.k)
  /\ ~C21_Consistent(shamir, field, call.shares, call.k)
  /\ ret.some
  /\ ret.value # secret

\* The shares a caller may put in the places past the first k: shares at an
\* x that the shares split produced do not use, with a y of no polynomial.
C22_OtherShares ==
  IF shamir = "compact"
    THEN {Share(0, all_ones(field)), Share(200, ZERO(field))}
    ELSE {Share(ZERO(field), all_ones(field)), Share(ONE(field), ZERO(field))}

\* The vectors that agree with the call's shares in the first k places and
\* either end there or hold other shares, of pairwise distinct x, in all the
\* places past them.
C22_Replaced ==
  {v \in {SubSeq(call.shares, 1, call.k) \o t :
            t \in UNION {[1..len -> C22_OtherShares] : len \in {0, Len(call.shares) - call.k}}} :
     \A i, j \in 1..Len(v) : i # j => v[i].x # v[j].x}

C23_RandomSplitTerminates ==
  /\ [](pc = "retry" =>
          /\ Len(shares) < n
          /\ \E x \in Elements(field) : ~rejected(field, shares, x))
  /\ (pc = "retry") ~> (pc = "split" /\ Len(shares) = n)

C23_Witness ==
  /\ pc = "split"
  /\ field = GF8
  /\ n = 255
  /\ Len(shares) = 255
  /\ {shares[i].x : i \in 1..255} = Elements(GF8) \ {ZERO(GF8)}

(***************************************************************************)
(* Properties of the steps of the sessions.                                *)
(***************************************************************************)

\* C24, as stated: no retry logic exists anywhere in the core.  No
\* operation attempts a step again after its outcome was rejected; each
\* random draw made by split is used as drawn, so that every pass of
\* split's loop pushes a share.
C24_NoRetry ==
  [][pc = "retry" => draw' = "break" /\ Len(shares') = Len(shares) + 1]_vars

\* C24, amended: the only retry logic of the core is the rejection loop of
\* RandomShamir::split.  A draw of x that is rejected leaves the shares as
\* they were and the loop goes round again; a draw that is accepted is
\* pushed as drawn, and its x is non-zero and differs from the x of every
\* share pushed before.  Compact split and the calls of reconstruct and
\* reconstruct_at are made in one step, with no draw rejected.
C24_RetryOnlyInRandomSplit ==
  [][/\ draw' = "retry" =>
          /\ shamir = "random"
          /\ pc = "retry"
          /\ pc' = "retry"
          /\ shares' = shares
     /\ (pc = "retry" /\ draw' = "break") =>
          /\ Len(shares') = Len(shares) + 1
          /\ SubSeq(shares', 1, Len(shares)) = shares
          /\ shares'[Len(shares')].x # ZERO(field)
          /\ \A i \in 1..Len(shares) : shares[i].x # shares'[Len(shares')].x
     /\ pc # "retry" =>
          /\ draw' = draw
          /\ pc' # pc
          /\ (pc = "idle" /\ shamir = "compact") =>
               pc' = "split" /\ Len(polynom') = k' - 1 /\ Len(shares') = n']_vars

\* A draw was rejected with one share pushed, and the loop is still running.
C24_Witness ==
  /\ shamir = "random"
  /\ pc = "retry"
  /\ draw = "retry"
  /\ Len(shares) = 1
  /\ n = 2

(***************************************************************************)
(* Properties of the shifts.                                               *)
(***************************************************************************)

\* shl1 applied t times.
shl1_times(f, v, t) == Iterate(LAMBDA w, i : shl1(f, w), v, 0, t)

\* C25: shift consistency against shl1.  For every element v of a field of
\* word width b, shl_word(v, 1) = shl1(v), shl_word(v, s) is shl1 applied s
\* times for every s in 1..b-1, and shlt(v) is shl1 applied b times, in the
\* single-word fields, where the reduction is iterated, and in the
\* multi-word ones, where one pass goes into the words 0 and 1.
C25_ShiftsAgainstShl1 ==
  /\ arith.op = "shl_word" =>
       /\ arith.res = shl1_times(field, arith.x, arith.shift)
       /\ arith.shift = 1 => arith.res = shl1(field, arith.x)
  /\ arith.op = "shlt" => arith.res = shl1_times(field, arith.x, field.wbits)

C25_Witness ==
  /\ arith.op = "shl_word"
  /\ field = GF8
  /\ arith.x = all_ones(GF8)
  /\ arith.shift = 7
  /\ arith.res # shl_word_one_pass(GF8, arith.x, 7)
  /\ arith.res = shl1_times(GF8, arith.x, 7)

\* shl_word(1), the one-bit shift, applied t times.
shl_word_times(f, v, t) == Iterate(LAMBDA w, i : shl_word(f, w, 1), v, 0, t)

\* C26, as stated: for every element v of a field of word width b, the
\* one-bit shl_word applied b-1 times to v gives the element shlt(v).
C26_ShlWordBMinusOneIsShlt ==
  arith.op = "shlt" => shl_word_times(field, arith.x, field.wbits - 1) = arith.res

\* C26, amended: for every element v of a field of word width b, the
\* one-bit shl_word applied b times to v gives the element shlt(v); applied
\* b-1 times it gives another element, unless v is zero.
C26_ShlWordBTimesIsShlt ==
  arith.op = "shlt" =>
    /\ shl_word_times(field, arith.x, field.wbits) = arith.res
    /\ arith.x # ZERO(field) => shl_word_times(field, arith.x, field.wbits - 1) # arith.res

C26_Witness ==
  /\ arith.op = "shlt"
  /\ field = GF128
  /\ arith.x = all_ones(GF128)
  /\ arith.res = shl_word_times(GF128, arith.x, 64)
  /\ arith.res # shl_word_times(GF128, arith.x, 63)
  /\ arith.res # shlt_unreduced(GF128, arith.x)

\* C27: multiplication by a monomial is a shift.  For every i in 0..n-1 and
\* every element v, xn(i) * v = v * xn(i) = v << i, where v << i is
\* floor(i / b) applications of shlt followed by shl_word(i mod b) when
\* i mod b is not zero, and v << i is also shl1 applied i times.
C27_MulByMonomialIsShift ==
  arith.op = "shl" =>
    LET whole == Iterate(LAMBDA w, t : shlt(field, w), arith.x, 0, arith.shift \div field.wbits)
        left == arith.shift % field.wbits
    IN /\ arith.res = IF left # 0 THEN shl_word(field, whole, left) ELSE whole
       /\ arith.res = shl1_times(field, arith.x, arith.shift)
       /\ arith.res = mul(field, xn(field, arith.shift), arith.x)
       /\ arith.res = mul(field, arith.x, xn(field, arith.shift))

C27_Witness ==
  /\ arith.op = "shl"
  /\ field = GF128
  /\ arith.shift = 127
  /\ arith.x = all_ones(GF128)
  /\ arith.res = mul(GF128, arith.x, xn(GF128, 127))
  /\ arith.res = shl_word(GF128, shlt(GF128, arith.x), 63)

(***************************************************************************)
(* Properties of invert.                                                   *)
(***************************************************************************)

\* v^e by e multiplications, and v^(2^j) by j squarings.
power(f, v, e) == Iterate(LAMBDA r, t : mul(f, r, v), ONE(f), 0, e)
squared_times(f, v, j) == Iterate(LAMBDA r, t : mul(f, r, r), v, 0, j)

\* C28: invert(v) performs exactly n-1 turns of "square v, then multiply
\* the result by v" from result = ONE, so that it returns the product of
\* v^(2^j) for j in 1..n-1, which is v^(2^n - 2), for every v; for
\* v = ZERO it returns ZERO, with no panic and no endless loop.
C28_InvertIsFermatPower ==
  arith.op = "invert" =>
    /\ arith.res = Iterate(LAMBDA r, j : mul(field, r, squared_times(field, arith.x, j)),
                           ONE(field), 1, NBITS(field))
    /\ field = GF8 => arith.res = power(field, arith.x, 2 ^ 8 - 2)
    /\ arith.x = ZERO(field) => arith.res = ZERO(field)
    /\ arith.x # ZERO(field) => mul(field, arith.res, arith.x) = ONE(field)

C28_Witness ==
  /\ arith.op = "invert"
  /\ field = GF8
  /\ arith.x = from(GF8, 171)
  /\ arith.res = power(GF8, arith.x, 254)
  /\ arith.res # power(GF8, arith.x, 126)
  /\ arith.res # ONE(GF8)

\* C29: Single-word reduction terminates.  In GF8, GF16, GF32, GF64 and
\* GF128u128 the loop "while carry != 0" of shl_word, shlt and
\* propagate_carries reaches carry = 0 for every carry word it is entered
\* with: each pass leaves a carry of strictly fewer significant bits (at
\* most as many as the word lost by the shift by W::NBITS - A), so the loop
\* makes at most two passes, and it leaves the word that the reduction
\* computes.
C29_SingleWordReductionTerminates ==
  /\ [][pc = "loop" /\ pc' = "loop" =>
         /\ significant_bits(arith'.carry) < significant_bits(arith.carry)
         /\ significant_bits(arith'.carry) + (field.wbits - field.a) <= field.wbits]_vars
  /\ [](pc \in {"loop", "done"} => arith.passes <= 2)
  /\ [](pc = "done" => arith.word = propagate_while(field, arith.word0, arith.carry0))
  /\ (pc = "loop") ~> (pc = "done" /\ arith.carry = W_ZERO)

C29_Witness ==
  /\ pc = "done"
  /\ field = GF128u128
  /\ arith.op = "shlt"
  /\ arith.carry0 = 0..127
  /\ arith.passes = 2
  /\ arith.carry = W_ZERO
  /\ arith.word # W_ZERO

\* C30: Every word shift is in range.  Every field alias has
\* 0 < C < B < A < W::NBITS, so every shift of a word made by shl1,
\* shl_word, shlt, mul_fused_carry, propagate_carries and Shl::shl is by an
\* amount in [0, W::NBITS), the amounts W::NBITS - A, W::NBITS - B and
\* W::NBITS - C among them, and every call of shl_word made by self << shift
\* with shift < Self::NBITS satisfies shift != 0 && shift < W::NBITS.
C30_WordShiftsInRange ==
  /\ 0 < field.c /\ field.c < field.b /\ field.b < field.a /\ field.a < field.wbits
  /\ reduction_shifts(field) \subseteq 1..(field.wbits - 1)
  /\ arith # NoCall =>
       /\ \A s \in arith.shifts : 0 <= s /\ s < field.wbits
       /\ \A s \in arith.shl_word : s # 0 /\ s < field.wbits

C30_Witness ==
  /\ field.name = "GF2048"
  /\ arith # NoCall
  /\ arith.op = "shl"
  /\ arith.shift = 2047
  /\ arith.shl_word = {63}
  /\ {1, 63, 64 - 19, 64 - 13} \subseteq arith.shifts

====
